---- MODULE Spec2Model ----
(***************************************************************************)
(* BOM parts sourcing: the part selection engine and the BOM row           *)
(* interpreter of src/app/api/bom-upload/route.ts, and the supplier        *)
(* adapters, the search orchestrator and the search endpoint of            *)
(* lib/parts-search.ts and api/parts-search/route.ts.                      *)
(*                                                                         *)
(* Strings the code inspects character by character (cells of a BOM row)   *)
(* are sequences of one-character strings.  Strings the code only tests    *)
(* for emptiness or copies (fields of a Part) are TLA+ strings.            *)
(* Prices are in thousandths of a dollar and scores in 1/100000 of a       *)
(* point, so that the arithmetic of the scoring functions is exact.        *)
(***************************************************************************)
EXTENDS Integers, Sequences, FiniteSets, TLC

(***************************************************************************)
(* String helpers (String.prototype.toLowerCase / toUpperCase / trim /     *)
(* startsWith).                                                            *)
(***************************************************************************)
UpperChars == <<"A","B","C","D","E","F","G","H","I","J","K","L","M",
                "N","O","P","Q","R","S","T","U","V","W","X","Y","Z">>
LowerChars == <<"a","b","c","d","e","f","g","h","i","j","k","l","m",
                "n","o","p","q","r","s","t","u","v","w","x","y","z">>
Digits == {"0","1","2","3","4","5","6","7","8","9"}

toLowerChar(c) ==
    IF \E i \in 1..26 : UpperChars[i] = c
    THEN LowerChars[CHOOSE i \in 1..26 : UpperChars[i] = c]
    ELSE c

toUpperChar(c) ==
    IF \E i \in 1..26 : LowerChars[i] = c
    THEN UpperChars[CHOOSE i \in 1..26 : LowerChars[i] = c]
    ELSE c

toLowerCase(s) == [i \in 1..Len(s) |-> toLowerChar(s[i])]

toUpperCase(s) == [i \in 1..Len(s) |-> toUpperChar(s[i])]

RECURSIVE trimStart(_)
trimStart(s) ==
    IF Len(s) > 0 /\ Head(s) = " " THEN trimStart(Tail(s)) ELSE s

RECURSIVE trimEnd(_)
trimEnd(s) ==
    IF Len(s) > 0 /\ s[Len(s)] = " "
    THEN trimEnd(SubSeq(s, 1, Len(s) - 1))
    ELSE s

trim(s) == trimEnd(trimStart(s))

startsWith(s, prefix) ==
    /\ Len(s) >= Len(prefix)
    /\ SubSeq(s, 1, Len(prefix)) = prefix

includes(s, sub) ==
    \E i \in 1..(Len(s) - Len(sub) + 1) : SubSeq(s, i, i + Len(sub) - 1) = sub

Min(a, b) == IF a < b THEN a ELSE b

Max(a, b) == IF a > b THEN a ELSE b

(***************************************************************************)
(* Parts (PartSearchResult).  price is in thousandths of a dollar.         *)
(***************************************************************************)
Part(supplier, partNumber, lcscPart, stock, price, datasheet) ==
    [supplier |-> supplier, partNumber |-> partNumber, lcscPart |-> lcscPart,
     stock |-> stock, price |-> price, datasheet |-> datasheet,
     manufacturerPartNumber |-> "", manufacturer |-> "", description |-> "",
     package |-> ""]

\* the Part with the fields that mergeSourcedData copies into a row
PartDetails(part, manufacturerPartNumber, manufacturer, description, package) ==
    [part EXCEPT !.manufacturerPartNumber = manufacturerPartNumber,
                 !.manufacturer = manufacturer, !.description = description,
                 !.package = package]

NoPart == [supplier |-> "none"]

(***************************************************************************)
(* Scoring.  A score is in units of 1/StockDivisor of a point: the score   *)
(* of the code times StockDivisor, an integer for integer stock and for    *)
(* prices in thousandths.                                                  *)
(***************************************************************************)
InStockPoints == 1000
StockDivisor == 100000
MaxStockPoints == 100
MaxPricePoints == 50
PriceWeight == 10
LcscPoints == 50
DatasheetPoints == 20

\* points * StockDivisor
Points(n) == n * StockDivisor

\* part.price * PriceWeight points, for a price in thousandths of a dollar
PricePenalty(price) == price * ((PriceWeight * StockDivisor) \div (10 * 100))

\* the JLCPCB score with the price points growing with the price
scoreJLCPCBPartPricier(part) ==
    (IF part.stock > 0 THEN Points(InStockPoints) ELSE 0)
    + Min(part.stock, Points(MaxStockPoints))
    + (IF part.price > 0
       THEN Min(Points(MaxPricePoints), PricePenalty(part.price))
       ELSE 0)
    + (IF part.lcscPart # "" THEN Points(LcscPoints) ELSE 0)

scoreJLCPCBPart(part) ==
    (IF part.stock > 0 THEN Points(InStockPoints) ELSE 0)
    + Min(part.stock, Points(MaxStockPoints))
    + (IF part.price > 0
       THEN Max(0, Points(MaxPricePoints) - PricePenalty(part.price))
       ELSE 0)
    + (IF part.lcscPart # "" THEN Points(LcscPoints) ELSE 0)

scoreDistributorPart(part) ==
    (IF part.stock > 0 THEN Points(InStockPoints) ELSE 0)
    + Min(part.stock, Points(MaxStockPoints))
    + (IF part.price > 0
       THEN Max(0, Points(MaxPricePoints) - PricePenalty(part.price))
       ELSE 0)
    + (IF part.datasheet # "" THEN Points(DatasheetPoints) ELSE 0)

\* the sort by descending score that puts an element after the elements
\* that follow it in the array and score the same
RECURSIVE sortByScoreDescTiesReversed(_)
sortByScoreDescTiesReversed(scored) ==
    IF Len(scored) <= 1 THEN scored
    ELSE LET h == Head(scored)
             rest == sortByScoreDescTiesReversed(Tail(scored))
             above == SelectSeq(rest, LAMBDA e : e.score >= h.score)
             below == SelectSeq(rest, LAMBDA e : e.score < h.score)
         IN  above \o <<h>> \o below

\* Array.prototype.sort((a, b) => b.score - a.score): a stable sort by
\* descending score, as an insertion of each element before the elements
\* that follow it in the array and do not score higher.
RECURSIVE sortByScoreDesc(_)
sortByScoreDesc(scored) ==
    IF Len(scored) <= 1 THEN scored
    ELSE LET h == Head(scored)
             rest == sortByScoreDesc(Tail(scored))
             above == SelectSeq(rest, LAMBDA e : e.score > h.score)
             below == SelectSeq(rest, LAMBDA e : e.score <= h.score)
         IN  above \o <<h>> \o below

scoredJLCPCB(parts) ==
    sortByScoreDesc([i \in 1..Len(parts) |->
                        [part |-> parts[i], score |-> scoreJLCPCBPart(parts[i])]])

scoredDistributor(parts) ==
    sortByScoreDesc([i \in 1..Len(parts) |->
                        [part |-> parts[i], score |-> scoreDistributorPart(parts[i])]])

\* The note of a selection: the supplier, the id it prints (the LCSC code
\* for JLCPCB, the part number for a distributor) and the stock figure.
Note(via, id, stock) == [via |-> via, id |-> id, stock |-> stock]

NoMatchesNote == [via |-> "No matches found"]

\* return { part: null, notes: 'No matches found' }
NoSelection == [part |-> NoPart, notes |-> NoMatchesNote]

\* selectBestPart as a global maximum: the supplier whose best candidate
\* scores highest wins.
selectBestPartByScore(jlcpcbResults, digikeyResults, mouserResults) ==
    LET j == scoredJLCPCB(jlcpcbResults)
        d == scoredDistributor(digikeyResults)
        m == scoredDistributor(mouserResults)
        js == IF Len(jlcpcbResults) > 0 THEN j[1].score ELSE 0
        ds == IF Len(digikeyResults) > 0 THEN d[1].score ELSE 0
        ms == IF Len(mouserResults) > 0 THEN m[1].score ELSE 0
    IN  IF js > 0 /\ js >= ds /\ js >= ms
        THEN [part |-> j[1].part,
              notes |-> Note("Matched via JLCPCB", j[1].part.lcscPart, j[1].part.stock)]
        ELSE IF ds > 0 /\ ds >= ms
        THEN [part |-> d[1].part,
              notes |-> Note("Matched via Digi-Key", d[1].part.partNumber, d[1].part.stock)]
        ELSE IF ms > 0
        THEN [part |-> m[1].part,
              notes |-> Note("Matched via Mouser", m[1].part.partNumber, m[1].part.stock)]
        ELSE NoSelection

\* selectBestPart accepting a top score of 0 (>= in place of >)
selectBestPartZeroOk(jlcpcbResults, digikeyResults, mouserResults) ==
    LET j == scoredJLCPCB(jlcpcbResults)
        d == scoredDistributor(digikeyResults)
        m == scoredDistributor(mouserResults)
    IN  IF Len(jlcpcbResults) > 0 /\ j[1].score >= 0
        THEN [part |-> j[1].part,
              notes |-> Note("Matched via JLCPCB", j[1].part.lcscPart, j[1].part.stock)]
        ELSE IF Len(digikeyResults) > 0 /\ d[1].score >= 0
        THEN [part |-> d[1].part,
              notes |-> Note("Matched via Digi-Key", d[1].part.partNumber, d[1].part.stock)]
        ELSE IF Len(mouserResults) > 0 /\ m[1].score >= 0
        THEN [part |-> m[1].part,
              notes |-> Note("Matched via Mouser", m[1].part.partNumber, m[1].part.stock)]
        ELSE NoSelection

selectBestPart(jlcpcbResults, digikeyResults, mouserResults) ==
    LET j == scoredJLCPCB(jlcpcbResults)
        d == scoredDistributor(digikeyResults)
        m == scoredDistributor(mouserResults)
    IN  IF Len(jlcpcbResults) > 0 /\ j[1].score > 0
        THEN [part |-> j[1].part,
              notes |-> Note("Matched via JLCPCB", j[1].part.lcscPart, j[1].part.stock)]
        ELSE IF Len(digikeyResults) > 0 /\ d[1].score > 0
        THEN [part |-> d[1].part,
              notes |-> Note("Matched via Digi-Key", d[1].part.partNumber, d[1].part.stock)]
        ELSE IF Len(mouserResults) > 0 /\ m[1].score > 0
        THEN [part |-> m[1].part,
              notes |-> Note("Matched via Mouser", m[1].part.partNumber, m[1].part.stock)]
        ELSE NoSelection

(***************************************************************************)
(* BOM rows.  A row is a function from the header's column names to cells  *)
(* (parseCSV gives every header column a trimmed cell, '' when the line    *)
(* is short); a column the header lacks reads as undefined.                *)
(***************************************************************************)
Has(row, col) == col \in DOMAIN row

\* row[col] as a condition (if (row.X)): defined and not ''
Truthy(row, col) == Has(row, col) /\ row[col] # <<>>

\* row[col]?.trim() || ''
TrimOrEmpty(row, col) == IF Has(row, col) THEN trim(row[col]) ELSE <<>>

IsDigit(c) == c \in Digits

IsWordChar(c) ==
    \/ c \in Digits
    \/ c = "_"
    \/ \E i \in 1..26 : UpperChars[i] = c \/ LowerChars[i] = c

FourDigitsAt(s, i) ==
    /\ i >= 1
    /\ i + 3 <= Len(s)
    /\ \A k \in i..(i + 3) : IsDigit(s[k])

\* the places where /(\d{4})Metric/i matches
MetricMatches(s) ==
    {i \in 1..Len(s) :
        /\ FourDigitsAt(s, i)
        /\ i + 9 <= Len(s)
        /\ toLowerCase(SubSeq(s, i + 4, i + 9)) = <<"m","e","t","r","i","c">>}

\* the places where /\b(\d{4})\b/ matches
SizeMatches(s) ==
    {i \in 1..Len(s) :
        /\ FourDigitsAt(s, i)
        /\ (i = 1 \/ ~IsWordChar(s[i - 1]))
        /\ (i + 4 > Len(s) \/ ~IsWordChar(s[i + 4]))}

Leftmost(S) == CHOOSE i \in S : \A j \in S : i <= j

extractFootprint(row) ==
    IF Truthy(row, "Footprint") /\ MetricMatches(row["Footprint"]) # {}
    THEN LET i == Leftmost(MetricMatches(row["Footprint"]))
         IN  SubSeq(row["Footprint"], i, i + 3)
    ELSE IF Truthy(row, "Footprint") /\ SizeMatches(row["Footprint"]) # {}
    THEN LET i == Leftmost(SizeMatches(row["Footprint"]))
         IN  SubSeq(row["Footprint"], i, i + 3)
    ELSE IF Truthy(row, "CASE CODE (METRIC)")
    THEN row["CASE CODE (METRIC)"]
    ELSE <<>>

\* /^[0-9.]+[<units>]/ on an upper-cased value
NumberThenOneOf(val, units) ==
    \E k \in 1..(Len(val) - 1) :
        /\ \A i \in 1..k : IsDigit(val[i]) \/ val[i] = "."
        /\ val[k + 1] \in units

inferComponentType(value, reference) ==
    LET ref == toUpperCase(reference)
        val == toUpperCase(value)
    IN  IF startsWith(ref, <<"C">>) THEN "capacitor"
        ELSE IF startsWith(ref, <<"R">>) THEN "resistor"
        ELSE IF startsWith(ref, <<"L">>) THEN "inductor"
        ELSE IF startsWith(ref, <<"L","E","D">>) THEN "led"
        ELSE IF startsWith(ref, <<"D">>) THEN "diode"
        ELSE IF startsWith(ref, <<"U">>) THEN "ic"
        ELSE IF startsWith(ref, <<"Y">>) \/ startsWith(ref, <<"X">>) THEN "crystal"
        ELSE IF startsWith(ref, <<"S">>) THEN "switch"
        ELSE IF startsWith(ref, <<"J">>) THEN "connector"
        ELSE IF startsWith(ref, <<"M","I","C">>) THEN "microphone"
        ELSE IF \/ NumberThenOneOf(val, {"P","N","U","F"})
                \/ includes(val, <<"F","A","R","A","D">>) THEN "capacitor"
        ELSE IF \/ NumberThenOneOf(val, {"K","M","R"})
                \/ includes(val, <<"O","H","M">>) THEN "resistor"
        ELSE IF /\ NumberThenOneOf(val, {"N","H"})
                /\ Len(val) > 0 /\ val[Len(val)] = "H" THEN "inductor"
        ELSE ""

(***************************************************************************)
(* The search orchestrator's result mapping and the candidate lists an     *)
(* adapter call can return.                                                *)
(***************************************************************************)
Suppliers == {"JLCPCB", "Digi-Key", "Mouser"}

\* results[name] = list, only for the suppliers whose list is not empty
collectResults(lists) ==
    [s \in {t \in Suppliers : Len(lists[t]) > 0} |-> lists[s]]

\* searchResults[name] || []
ResultsOrEmpty(mapping, s) == IF s \in DOMAIN mapping THEN mapping[s] ELSE <<>>

MaxParts == 2

ListsUpTo(S, n) == UNION {[1..k -> S] : k \in 0..n}

\* JLCPCB: in stock with an LCSC code; out of stock, priced at $4.00 (10
\* points); out of stock, no price, no code (0 points).
JLCPCBParts ==
    {Part("JLCPCB", "RC0402FR-07100KL", "C5137468", 15900000, 1, ""),
     Part("JLCPCB", "GEN-100K", "", 0, 4000, ""),
     Part("JLCPCB", "OLD-100K", "", 0, 0, "")}

\* Digi-Key: in stock with a datasheet; out of stock, nothing else (0 points).
DigiKeyParts ==
    {Part("Digi-Key", "535-11585-2-ND", "", 80000, 250, "https://ds/1.pdf"),
     Part("Digi-Key", "311-0.0GRCT-ND", "", 0, 0, "")}

\* Mouser: in stock; another part with the same stock and price (the same
\* score); out of stock at $6.00 (the price term is 0: 0 points).
MouserParts ==
    {Part("Mouser", "667-ERJ-3RED3013V", "", 19000, 100, ""),
     Part("Mouser", "603-RC0402FR-07100KL", "", 19000, 100, ""),
     Part("Mouser", "71-CRCW0402-100K", "", 0, 6000, "")}

\* JLCPCBClient.searchCategory sorts by descending stock, then ascending price
JLCPCBSorted(l) ==
    \A i \in 1..(Len(l) - 1) :
        \/ l[i].stock > l[i + 1].stock
        \/ l[i].stock = l[i + 1].stock /\ l[i].price <= l[i + 1].price

AdapterLists(s) ==
    IF s = "JLCPCB" THEN {l \in ListsUpTo(JLCPCBParts, MaxParts) : JLCPCBSorted(l)}
    ELSE IF s = "Digi-Key" THEN ListsUpTo(DigiKeyParts, MaxParts)
    ELSE ListsUpTo(MouserParts, MaxParts)

NoLists == [s \in Suppliers |-> <<>>]

(***************************************************************************)
(* The rows of the model: every combination of the cells below.            *)
(***************************************************************************)
Str_no == <<"n","o">>
Str_Yes == <<"Y","e","s">>
Str_TRUE == <<"T","R","U","E">>
Str_Excluded == <<"E","x","c","l","u","d","e","d"," ","f","r","o","m"," ","B","O","M">>
Str_dnp == <<"d","n","p">>
Str_mpn == <<"R","C","0","4","0","2">>
Str_lcsc == <<"C","2","5","8","0","4">>
Str_100K == <<"1","0","0","K">>
Str_C1C2 == <<"C","1",",","C","2">>
Str_U1 == <<"U","1">>
Str_fp == <<"R","_","0","4","0","2","_","1","0","0","5","M","e","t","r","i","c">>

Absent == <<"(absent)">>

ExcludeCells == {Absent, Str_no, Str_Yes, Str_TRUE, Str_Excluded}
DNPCells == {<<>>, Str_Yes}
MPNCells == {<<>>, Str_dnp, Str_mpn}
\* <<LCSC Part #, JLCPCB Part #>>
XrefCells == {<<<<>>, Absent>>, <<Str_lcsc, Absent>>, <<<<>>, Str_lcsc>>}
ValueCells == {<<>>, Str_100K}
ReferenceCells == {Str_C1C2, Str_U1}
FootprintCells == {<<>>, Str_fp}

\* the row with the given cells; an Absent cell is a column the header lacks
MakeRow(cells) ==
    [c \in {d \in DOMAIN cells : cells[d] # Absent} |-> cells[c]]

BOMRows ==
    {MakeRow([Reference |-> r, Value |-> v, Footprint |-> f, DNP |-> d,
              Manufacturer_Part_Number |-> m] @@
             ("Exclude from BOM" :> e) @@
             ("LCSC Part #" :> x[1]) @@ ("JLCPCB Part #" :> x[2])) :
        r \in ReferenceCells, v \in ValueCells, f \in FootprintCells,
        d \in DNPCells, m \in MPNCells, e \in ExcludeCells, x \in XrefCells}

(***************************************************************************)
(* State of one processBOMRow call.                                        *)
(***************************************************************************)
VARIABLES
    row,            \* the BOM row being processed
    pc,             \* "start", "searching" (awaiting searchAllSuppliers), "done"
    query,          \* the SearchParams handed to searchAllSuppliers
    adapterCalls,   \* per supplier, the search calls made for the row
    inflight,       \* the suppliers whose search call has not returned
    adapterResult,  \* per supplier, the list its search call returned
    result          \* the SourcingResult

bomVars == <<row, pc, query, adapterCalls, inflight, adapterResult, result>>

VARIABLES
    credentials,    \* clientId, clientSecret (Digi-Key), apiKey (Mouser): "" or set
    now,            \* Date.now(), in seconds
    tokenCache,     \* DigiKeyClient.accessToken (0: null) and tokenExpiry
    issued,         \* the token responses received, in order: token, call, time, expires_in
    request,        \* per slot, the search request being served
    jlcpcb,         \* per slot, the request's JLCPCBClient.search call
    digikey,        \* per slot, the request's DigiKeyClient.search call
    mouser,         \* per slot, the request's MouserClient.search call
    started         \* the requests started so far

searchVars ==
    <<credentials, now, tokenCache, issued, request, jlcpcb, digikey, mouser, started>>

(***************************************************************************)
(* State of one BOM upload (POST /api/bom-upload), the argument and value  *)
(* of one call of a pure function of the program, and the part search      *)
(* state of the page (the Home component).                                 *)
(***************************************************************************)
VARIABLES
    upload,         \* the upload being served: its rows, their processing, the report
    pure,           \* a function call: its name, its argument, its value once returned
    page            \* the search form: its inputs, what it displays, its requests

otherVars == <<upload, pure, page>>

NoQuery == [limit |-> 0]

NoResult == [status |-> "pending"]

TextNote(text) == [via |-> text]

SourcingResult(originalRow, matchedPart, searchResults, status, notes) ==
    [originalRow |-> originalRow, matchedPart |-> matchedPart,
     searchResults |-> searchResults, status |-> status, notes |-> notes]

\* isExcludedFromBOM comparing the cell as written (no toLowerCase)
isExcludedFromBOMExact(r) ==
    /\ Has(r, "Exclude from BOM")
    /\ r["Exclude from BOM"] \in
          {<<"y","e","s">>, <<"t","r","u","e">>,
           <<"e","x","c","l","u","d","e","d"," ","f","r","o","m"," ","b","o","m">>}

\* row['Exclude from BOM']?.toLowerCase() === 'yes' || ... 'true' || ... 'excluded from bom'
isExcludedFromBOM(r) ==
    /\ Has(r, "Exclude from BOM")
    /\ toLowerCase(r["Exclude from BOM"]) \in
          {<<"y","e","s">>, <<"t","r","u","e">>,
           <<"e","x","c","l","u","d","e","d"," ","f","r","o","m"," ","b","o","m">>}

\* the DNP test on the DNP column alone
isDNPFlagOnly(r) ==
    /\ Has(r, "DNP")
    /\ toLowerCase(r["DNP"]) \in {<<"y","e","s">>, <<"t","r","u","e">>}

\* row.DNP?.toLowerCase() === 'yes' || ... 'true' ||
\* row.Manufacturer_Part_Number?.toUpperCase() === 'DNP'
isDNP(r) ==
    \/ /\ Has(r, "DNP")
       /\ toLowerCase(r["DNP"]) \in {<<"y","e","s">>, <<"t","r","u","e">>}
    \/ /\ Has(r, "Manufacturer_Part_Number")
       /\ toUpperCase(r["Manufacturer_Part_Number"]) = <<"D","N","P">>

\* the already-sourced test on the 'JLCPCB Part #' column alone
isAlreadySourcedJLCPCBOnly(r) == TrimOrEmpty(r, "JLCPCB Part #") # <<>>

\* row['LCSC Part #']?.trim() || row['JLCPCB Part #']?.trim()
isAlreadySourced(r) ==
    \/ TrimOrEmpty(r, "LCSC Part #") # <<>>
    \/ TrimOrEmpty(r, "JLCPCB Part #") # <<>>

DefaultLimit == 10

buildQuery(r) ==
    [value |-> TrimOrEmpty(r, "Value"),
     footprint |-> extractFootprint(r),
     componentType |-> inferComponentType(TrimOrEmpty(r, "Value"), r["Reference"]),
     manufacturerPartNumber |-> TrimOrEmpty(r, "Manufacturer_Part_Number"),
     limit |-> DefaultLimit]

\* processBOMRow up to its first return or to the await of searchAllSuppliers,
\* which calls the three adapters' search at once (Promise.all).
ProcessBOMRowStart ==
    /\ pc = "start"
    /\ IF isExcludedFromBOM(row)
       THEN /\ result' = SourcingResult(row, NoPart, NoLists, "skipped",
                                        TextNote("Excluded from BOM"))
            /\ pc' = "done"
            /\ UNCHANGED <<query, adapterCalls, inflight>>
       ELSE IF isDNP(row)
       THEN /\ result' = SourcingResult(row, NoPart, NoLists, "skipped",
                                        TextNote("DNP (Do Not Populate)"))
            /\ pc' = "done"
            /\ UNCHANGED <<query, adapterCalls, inflight>>
       ELSE IF isAlreadySourced(row)
       THEN /\ result' = SourcingResult(row, NoPart, NoLists, "already_sourced",
                                        TextNote("Already has LCSC/JLCPCB part number"))
            /\ pc' = "done"
            /\ UNCHANGED <<query, adapterCalls, inflight>>
       ELSE IF buildQuery(row).value = <<>> /\ buildQuery(row).manufacturerPartNumber = <<>>
       THEN /\ result' = SourcingResult(row, NoPart, NoLists, "not_found",
                                        TextNote("No value or part number to search"))
            /\ pc' = "done"
            /\ UNCHANGED <<query, adapterCalls, inflight>>
       ELSE /\ query' = buildQuery(row)
            /\ adapterCalls' = [s \in Suppliers |-> adapterCalls[s] + 1]
            /\ inflight' = Suppliers
            /\ pc' = "searching"
            /\ UNCHANGED result
    /\ UNCHANGED <<row, adapterResult>>
    /\ UNCHANGED searchVars
    /\ UNCHANGED otherVars

\* one adapter's search call returns its list (at most query.limit Parts)
AdapterReturns(s) ==
    /\ pc = "searching"
    /\ s \in inflight
    /\ \E l \in AdapterLists(s) :
          /\ Len(l) <= query.limit
          /\ adapterResult' = [adapterResult EXCEPT ![s] = l]
    /\ inflight' = inflight \ {s}
    /\ UNCHANGED <<row, pc, query, adapterCalls, result>>
    /\ UNCHANGED searchVars
    /\ UNCHANGED otherVars

\* Promise.all has resolved: searchAllSuppliers returns its mapping and
\* processBOMRow selects the best part.
ProcessBOMRowFinish ==
    /\ pc = "searching"
    /\ inflight = {}
    /\ LET searchResults == collectResults(adapterResult)
           jlcpcbResults == ResultsOrEmpty(searchResults, "JLCPCB")
           digikeyResults == ResultsOrEmpty(searchResults, "Digi-Key")
           mouserResults == ResultsOrEmpty(searchResults, "Mouser")
           best == selectBestPart(jlcpcbResults, digikeyResults, mouserResults)
       IN  result' = SourcingResult(row, best.part,
                        [s \in Suppliers |-> ResultsOrEmpty(searchResults, s)],
                        IF best.part # NoPart THEN "matched" ELSE "not_found",
                        best.notes)
    /\ pc' = "done"
    /\ UNCHANGED <<row, query, adapterCalls, inflight, adapterResult>>
    /\ UNCHANGED searchVars
    /\ UNCHANGED otherVars

InitBOM ==
    /\ row \in BOMRows
    /\ pc = "start"
    /\ query = NoQuery
    /\ adapterCalls = [s \in Suppliers |-> 0]
    /\ inflight = {}
    /\ adapterResult = NoLists
    /\ result = NoResult


(***************************************************************************)
(* The supplier adapters (lib/parts-search.ts).  SearchParams fields are    *)
(* character sequences, <<>> for a field that is undefined or ''.           *)
(***************************************************************************)
SearchParams(value, footprint, componentType, manufacturer, manufacturerPartNumber, limit) ==
    [value |-> value, footprint |-> footprint, componentType |-> componentType,
     manufacturer |-> manufacturer, manufacturerPartNumber |-> manufacturerPartNumber,
     limit |-> limit]

\* the keyword of DigiKeyClient.search and of MouserClient.search
distributorKeyword(params) ==
    LET k0 == params.value
        k1 == IF params.footprint # <<>> THEN k0 \o <<" ">> \o params.footprint ELSE k0
        k2 == IF params.componentType # <<>>
              THEN params.componentType \o <<" ">> \o k1 ELSE k1
        k3 == IF params.manufacturerPartNumber # <<>>
              THEN params.manufacturerPartNumber ELSE k2
    IN  trim(k3)

\* the search term of JLCPCBClient.search
jlcpcbSearchTerm(params) ==
    LET t0 == params.value
        t1 == IF params.manufacturerPartNumber # <<>>
              THEN params.manufacturerPartNumber ELSE t0
        t2 == IF params.manufacturer # <<>> /\ params.manufacturerPartNumber = <<>>
              THEN params.manufacturer \o <<" ">> \o t1 ELSE t1
    IN  trim(t2)

categoryEndpoints ==
    <<<<<<"r","e","s","i","s","t","o","r">>, "resistors">>,
      <<<<"c","a","p","a","c","i","t","o","r">>, "capacitors">>,
      <<<<"i","n","d","u","c","t","o","r">>, "inductors">>,
      <<<<"l","e","d">>, "leds">>,
      <<<<"d","i","o","d","e">>, "diodes">>,
      <<<<"t","r","a","n","s","i","s","t","o","r">>, "bjt_transistors">>,
      <<<<"m","o","s","f","e","t">>, "mosfets">>,
      <<<<"i","c">>, "microcontrollers">>,
      <<<<"m","i","c","r","o","c","o","n","t","r","o","l","l","e","r">>, "microcontrollers">>,
      <<<<"v","o","l","t","a","g","e"," ","r","e","g","u","l","a","t","o","r">>, "voltage_regulators">>,
      <<<<"l","d","o">>, "ldos">>,
      <<<<"s","w","i","t","c","h">>, "switches">>,
      <<<<"r","e","l","a","y">>, "relays">>,
      <<<<"f","u","s","e">>, "fuses">>,
      <<<<"c","o","n","n","e","c","t","o","r">>, "headers">>,
      <<<<"h","e","a","d","e","r">>, "headers">>,
      <<<<"o","l","e","d">>, "oled_display">>,
      <<<<"l","c","d">>, "lcd_display">>,
      <<<<"a","d","c">>, "adcs">>,
      <<<<"d","a","c">>, "dacs">>,
      <<<<"w","i","f","i">>, "wifi_modules">>,
      <<<<"f","p","g","a">>, "fpgas">>,
      <<<<"a","r","m">>, "arm_processors">>,
      <<<<"r","i","s","c","-","v">>, "risc_v_processors">>>>

\* categoryEndpoints[(params.componentType || '').toLowerCase()] || 'components'
jlcpcbCategory(params) ==
    LET key == toLowerCase(params.componentType)
        hits == {i \in 1..Len(categoryEndpoints) : categoryEndpoints[i][1] = key}
    IN  IF hits = {} THEN "components"
        ELSE categoryEndpoints[CHOOSE i \in hits : TRUE][2]

\* /^[0-9.]+[<letters>]/
NumberThen(term, letters) ==
    \E k \in 1..(Len(term) - 1) :
        /\ \A i \in 1..k : IsDigit(term[i]) \/ term[i] = "."
        /\ term[k + 1] \in letters

\* /^[0-9.]+[<letters>]F/i
NumberThenUnitF(term, letters) ==
    \E k \in 1..(Len(term) - 2) :
        /\ \A i \in 1..k : IsDigit(term[i]) \/ term[i] = "."
        /\ toLowerChar(term[k + 1]) \in letters
        /\ toLowerChar(term[k + 2]) = "f"

looksLikeResistor(term) ==
    \/ NumberThen(term, {"K", "R", "k", "r"})
    \/ includes(toLowerCase(term), <<"o","h","m">>)
    \/ includes(toLowerCase(term), <<"r","e","s","i","s","t","o","r">>)

looksLikeCapacitor(term) ==
    \/ NumberThenUnitF(term, {"p", "n", "u"})
    \/ includes(toLowerCase(term), <<"c","a","p","a","c","i","t","o","r">>)
    \/ includes(toLowerCase(term), <<"f","a","r","a","d">>)

\* the category endpoint JLCPCBClient.search retries after an empty result
\* of the generic endpoint, "" when it does not retry
jlcpcbFallback(category, term) ==
    IF category # "components" THEN ""
    ELSE IF looksLikeResistor(term) THEN "resistors"
    ELSE IF looksLikeCapacitor(term) THEN "capacitors"
    ELSE ""

\* results.sort: descending stock, then ascending price (stable)
JLCPCBBefore(a, b) ==
    \/ a.stock > b.stock
    \/ a.stock = b.stock /\ a.price < b.price

RECURSIVE sortJLCPCB(_)
sortJLCPCB(parts) ==
    IF Len(parts) <= 1 THEN parts
    ELSE LET h == Head(parts)
             rest == sortJLCPCB(Tail(parts))
             first == SelectSeq(rest, LAMBDA e : JLCPCBBefore(e, h))
             last == SelectSeq(rest, LAMBDA e : ~JLCPCBBefore(e, h))
         IN  first \o <<h>> \o last

\* params.limit || 10
limitOrDefault(params) == IF params.limit = 0 THEN DefaultLimit ELSE params.limit

slice(parts, n) == SubSeq(parts, 1, Min(Len(parts), n))

\* searchCategory returning the parsed components in the order received
jlcpcbCategoryResultsUnsorted(parsed) ==
    SelectSeq(parsed, LAMBDA p : p.partNumber # "" \/ p.lcscPart # "")

\* searchCategory on an OK response whose components are an array: the
\* parsed components with a part number or an LCSC code, sorted
jlcpcbCategoryResults(parsed) ==
    sortJLCPCB(SelectSeq(parsed, LAMBDA p : p.partNumber # "" \/ p.lcscPart # ""))

(***************************************************************************)
(* One adapter search call.  pc is the await the call is suspended at,     *)
(* "returned" or "threw"; ret the list it returned.  The other fields      *)
(* record what the call did: the upstream requests it issued, whether one  *)
(* of the responses was a failure, and for Digi-Key the bearer token of    *)
(* its search request, where it came from and when it was checked.         *)
(***************************************************************************)
IdleCall ==
    [pc |-> "idle", ret |-> <<>>, tokenReqs |-> 0, searchReqs |-> 0,
     failed |-> FALSE, token |-> 0, tokenFrom |-> "none", checkedAt |-> 0]

Returned(call, list) == [call EXCEPT !.pc = "returned", !.ret = list]

\* catch (error) { console.error(...); return []; }
CatchReturnsEmpty(call) == [call EXCEPT !.pc = "returned", !.ret = <<>>, !.failed = TRUE]

\* an upstream exchange that makes the awaiting code throw: fetch rejects
\* (transport failure) or response.json() rejects (unparseable body)
Throws(outcome) == outcome.kind \in {"reject", "badJson"}

SearchOutcomes(payloads) ==
    [kind : {"reject", "notOk", "badJson", "notArray"}, parsed : {<<>>}]
    \cup [kind : {"ok"}, parsed : payloads]

(***************************************************************************)
(* JLCPCBClient                                                            *)
(***************************************************************************)
\* searchCategory up to its fetch
jlcpcbRequest(call, endpoint) ==
    [call EXCEPT !.pc = endpoint, !.searchReqs = @ + 1]

\* JLCPCBClient.search up to its first await
jlcpcbSearchStart(params) ==
    IF jlcpcbSearchTerm(params) = <<>>
    THEN Returned(IdleCall, <<>>)
    ELSE jlcpcbRequest(IdleCall, jlcpcbCategory(params))

\* the list searchCategory returns for a response that does not throw
jlcpcbCategoryList(outcome) ==
    IF outcome.kind = "ok" THEN jlcpcbCategoryResults(outcome.parsed) ELSE <<>>

\* JLCPCBClient.search from the response of its first searchCategory
jlcpcbAfterFirst(call, params, outcome) ==
    LET seen == [call EXCEPT !.failed = @ \/ outcome.kind # "ok"]
        results == jlcpcbCategoryList(outcome)
        retry == jlcpcbFallback(jlcpcbCategory(params), jlcpcbSearchTerm(params))
    IN  IF Throws(outcome) THEN CatchReturnsEmpty(seen)
        ELSE IF Len(results) = 0 /\ jlcpcbCategory(params) = "components" /\ retry # ""
        THEN jlcpcbRequest(seen, "fallback:" \o retry)
        ELSE Returned(seen, slice(results, limitOrDefault(params)))

\* JLCPCBClient.search from the response of the retried searchCategory
jlcpcbAfterFallback(call, params, outcome) ==
    LET seen == [call EXCEPT !.failed = @ \/ outcome.kind # "ok"]
    IN  IF Throws(outcome) THEN CatchReturnsEmpty(seen)
        ELSE Returned(seen, slice(jlcpcbCategoryList(outcome), limitOrDefault(params)))

jlcpcbAwaitsFallback(call) == call.pc \in {"fallback:resistors", "fallback:capacitors"}

jlcpcbAwaits(call) == call.pc \notin {"idle", "returned", "threw"}

(***************************************************************************)
(* DigiKeyClient                                                           *)
(***************************************************************************)
TokenMargin == 300

\* isConfigured() testing the client id alone
digikeyIsConfiguredIdOnly(creds) == creds.clientId # ""

\* isConfigured(): !!(this.clientId && this.clientSecret)
digikeyIsConfigured(creds) == creds.clientId # "" /\ creds.clientSecret # ""

\* this.accessToken && Date.now() < this.tokenExpiry, with <= for <
tokenIsValidInclusive(accessToken, tokenExpiry, time) ==
    accessToken # 0 /\ time <= tokenExpiry

tokenIsValid(accessToken, tokenExpiry, time) ==
    accessToken # 0 /\ time < tokenExpiry

\* Date.now() + (data.expires_in - 300) * 1000, in seconds
expiryOf(time, expiresIn) == time + (expiresIn - TokenMargin)

\* the cache after a token response, keeping the later of the two expiries
storeTokenKeepLaterExpiry(cache, outcome, time) ==
    [accessToken |-> outcome.token,
     tokenExpiry |-> Max(cache.tokenExpiry, expiryOf(time, outcome.expiresIn))]

\* this.accessToken = data.access_token; this.tokenExpiry = ...
storeToken(cache, outcome, time) ==
    [accessToken |-> outcome.token,
     tokenExpiry |-> expiryOf(time, outcome.expiresIn)]

\* DigiKeyClient.search from the token getAccessToken returned
digikeySearchWithToken(call, params, token, from) ==
    LET got == [call EXCEPT !.token = token, !.tokenFrom = from]
    IN  IF distributorKeyword(params) = <<>>
        THEN Returned(got, <<>>)
        ELSE [got EXCEPT !.pc = "awaitSearch", !.searchReqs = @ + 1]

\* DigiKeyClient.search up to its first pending fetch
digikeySearchStart(params, creds, cache, time) ==
    IF ~digikeyIsConfigured(creds)
    THEN Returned(IdleCall, <<>>)
    ELSE IF tokenIsValid(cache.accessToken, cache.tokenExpiry, time)
    THEN digikeySearchWithToken([IdleCall EXCEPT !.checkedAt = time], params,
                                cache.accessToken, "cache")
    ELSE [IdleCall EXCEPT !.pc = "awaitToken", !.tokenReqs = @ + 1, !.checkedAt = time]

\* the search going on to its keyword request whatever the token response
digikeyAfterTokenSearchAnyway(call, params, outcome) ==
    LET seen == [call EXCEPT !.failed = @ \/ outcome.kind # "ok"]
    IN  digikeySearchWithToken(seen, params, outcome.token, "fetch")

\* getAccessToken and search from the token response
digikeyAfterToken(call, params, outcome) ==
    LET seen == [call EXCEPT !.failed = @ \/ outcome.kind # "ok"]
    IN  IF outcome.kind # "ok" THEN CatchReturnsEmpty(seen)
        ELSE digikeySearchWithToken(seen, params, outcome.token, "fetch")

\* DigiKeyClient.search from the search response
digikeyAfterSearch(call, outcome) ==
    LET seen == [call EXCEPT !.failed = @ \/ outcome.kind # "ok"]
    IN  IF Throws(outcome) \/ outcome.kind = "notArray" THEN CatchReturnsEmpty(seen)
        ELSE IF outcome.kind = "notOk" THEN Returned(seen, <<>>)
        ELSE Returned(seen, outcome.parsed)

(***************************************************************************)
(* MouserClient                                                            *)
(***************************************************************************)
mouserIsConfigured(creds) == creds.apiKey # ""

\* MouserClient.search up to its fetch
mouserSearchStart(params, creds) ==
    IF ~mouserIsConfigured(creds) THEN Returned(IdleCall, <<>>)
    ELSE IF distributorKeyword(params) = <<>> THEN Returned(IdleCall, <<>>)
    ELSE [IdleCall EXCEPT !.pc = "awaitSearch", !.searchReqs = @ + 1]

\* MouserClient.search from the search response
mouserAfterSearch(call, outcome) ==
    LET seen == [call EXCEPT !.failed = @ \/ outcome.kind # "ok"]
    IN  IF Throws(outcome) \/ outcome.kind = "notArray" THEN CatchReturnsEmpty(seen)
        ELSE IF outcome.kind = "notOk" THEN Returned(seen, <<>>)
        ELSE Returned(seen, outcome.parsed)

(***************************************************************************)
(* The search orchestrator (searchAllSuppliers) and the search endpoint    *)
(* (GET/POST /api/parts-search), over the adapter singletons.              *)
(***************************************************************************)
MaxCalls == 2
MaxSearches == 2
MaxTicks == 2

Slots == 1..MaxCalls

SupplierId(s) ==
    IF s = "JLCPCB" THEN "jlcpcb" ELSE IF s = "Digi-Key" THEN "digikey" ELSE "mouser"

AllIds == {"jlcpcb", "digikey", "mouser"}

\* body.suppliers || ['jlcpcb', 'digikey', 'mouser'], then suppliers.includes(id);
\* searchAllSuppliers takes no list and calls the three adapters
enabledSuppliers(mode, suppliers) ==
    IF mode = "searchAllSuppliers" THEN Suppliers
    ELSE LET ids == IF suppliers.present THEN suppliers.ids ELSE AllIds
         IN  {s \in Suppliers : SupplierId(s) \in ids}

Settled(call) == call.pc \in {"returned", "threw"}

\* Promise.all over one settled call is taken for all of them
promiseAnySettled(enabled, calls) ==
    enabled = {} \/ \E s \in enabled : Settled(calls[s])

\* Promise.all(searchPromises) settles: every call has returned, or one threw
promiseAllSettled(enabled, calls) ==
    \/ \A s \in enabled : calls[s].pc = "returned"
    \/ \E s \in enabled : calls[s].pc = "threw"

\* the mapping with an entry for every enabled supplier, empty or not
collectEnabledKeepEmpty(enabled, calls) ==
    [s \in enabled |-> calls[s].ret]

\* results[name] = r only if (r.length > 0)
collectEnabled(enabled, calls) ==
    [s \in {t \in enabled : Len(calls[t].ret) > 0} |-> calls[s].ret]

\* no suppliers list in the request: body.suppliers is undefined
NoSupplierList == [present |-> FALSE, ids |-> {}]

IdleRequest ==
    [pc |-> "idle", mode |-> "", suppliers |-> NoSupplierList,
     params |-> NoQuery, response |-> [success |-> FALSE, results |-> <<>>]]

CallsOf(r) == [s \in Suppliers |->
                 IF s = "JLCPCB" THEN jlcpcb[r]
                 ELSE IF s = "Digi-Key" THEN digikey[r] ELSE mouser[r]]

EnabledOf(r) == enabledSuppliers(request[r].mode, request[r].suppliers)

(***************************************************************************)
(* The requests, credentials and upstream payloads of the model.           *)
(***************************************************************************)
Q_100K == SearchParams(<<"1","0","0","K">>, <<>>, <<>>, <<>>, <<>>, 0)
Q_Typed == SearchParams(<<"1","0","0","K">>, <<"0","4","0","2">>, <<"r","e","s","i","s","t","o","r">>, <<>>, <<>>, 1)
Q_Empty == SearchParams(<<>>, <<>>, <<>>, <<>>, <<>>, 0)
Q_Blank == SearchParams(<<" ">>, <<>>, <<>>, <<>>, <<>>, 0)
Q_TypeOnly == SearchParams(<<>>, <<>>, <<"r","e","s","i","s","t","o","r">>, <<>>, <<>>, 0)

SearchQueries == {Q_100K, Q_Typed, Q_Empty, Q_Blank, Q_TypeOnly}

Credentials ==
    {[clientId |-> "id", clientSecret |-> "secret", apiKey |-> "key"],
     [clientId |-> "id", clientSecret |-> "", apiKey |-> "key"],
     [clientId |-> "", clientSecret |-> "secret", apiKey |-> ""]}

\* a component without part number or LCSC code is dropped by searchCategory
JLCPCBPayloads ==
    {<<>>,
     <<Part("JLCPCB", "GEN-100K", "", 0, 4000, ""),
       Part("JLCPCB", "", "", 500, 10, ""),
       Part("JLCPCB", "RC0402FR-07100KL", "C5137468", 15900000, 1, ""),
       Part("JLCPCB", "OLD-100K", "", 0, 100, "")>>}

DigiKeyPayloads ==
    {<<>>, <<Part("Digi-Key", "535-11585-2-ND", "", 80000, 250, "https://ds/1.pdf")>>}

MouserPayloads ==
    {<<>>, <<Part("Mouser", "667-ERJ-3RED3013V", "", 19000, 100, "")>>}

TokenOutcomes ==
    [kind : {"reject", "notOk", "badJson"}, token : {0}, expiresIn : {0}]
    \cup [kind : {"ok"}, token : {Len(issued) + 1},
          expiresIn : {TokenMargin, 3 * TokenMargin}]

(***************************************************************************)
(* Actions                                                                 *)
(***************************************************************************)
\* a request arrives: the handler runs up to Promise.all, and every enabled
\* adapter's search runs up to its first pending fetch
StartSearch(r, mode, suppliers, params) ==
    /\ request[r].pc = "idle"
    /\ started < MaxSearches
    /\ started' = started + 1
    /\ request' = [request EXCEPT ![r] =
                      [IdleRequest EXCEPT !.pc = "waiting", !.mode = mode,
                                          !.suppliers = suppliers, !.params = params]]
    /\ LET enabled == enabledSuppliers(mode, suppliers)
       IN  /\ jlcpcb' = [jlcpcb EXCEPT ![r] =
                            IF "JLCPCB" \in enabled
                            THEN jlcpcbSearchStart(params) ELSE IdleCall]
           /\ digikey' = [digikey EXCEPT ![r] =
                            IF "Digi-Key" \in enabled
                            THEN digikeySearchStart(params, credentials, tokenCache, now)
                            ELSE IdleCall]
           /\ mouser' = [mouser EXCEPT ![r] =
                            IF "Mouser" \in enabled
                            THEN mouserSearchStart(params, credentials) ELSE IdleCall]
    /\ UNCHANGED <<credentials, now, tokenCache, issued>>
    /\ UNCHANGED bomVars
    /\ UNCHANGED otherVars

\* the JLCSearch API answers the pending fetch of a searchCategory
JLCPCBResponse(r) ==
    /\ jlcpcbAwaits(jlcpcb[r])
    /\ \E outcome \in SearchOutcomes(JLCPCBPayloads) :
          jlcpcb' = [jlcpcb EXCEPT ![r] =
                        IF jlcpcbAwaitsFallback(@)
                        THEN jlcpcbAfterFallback(@, request[r].params, outcome)
                        ELSE jlcpcbAfterFirst(@, request[r].params, outcome)]
    /\ UNCHANGED <<credentials, now, tokenCache, issued, request, digikey, mouser, started>>
    /\ UNCHANGED bomVars
    /\ UNCHANGED otherVars

\* the token endpoint answers: getAccessToken stores the token and search goes on
DigiKeyTokenResponse(r) ==
    /\ digikey[r].pc = "awaitToken"
    /\ \E outcome \in TokenOutcomes :
          /\ digikey' = [digikey EXCEPT ![r] =
                            digikeyAfterToken(@, request[r].params, outcome)]
          /\ IF outcome.kind = "ok"
             THEN /\ tokenCache' = storeToken(tokenCache, outcome, now)
                  /\ issued' = Append(issued, [token |-> outcome.token, by |-> r, time |-> now,
                                               expiresIn |-> outcome.expiresIn])
             ELSE UNCHANGED <<tokenCache, issued>>
    /\ UNCHANGED <<credentials, now, request, jlcpcb, mouser, started>>
    /\ UNCHANGED bomVars
    /\ UNCHANGED otherVars

\* the Digi-Key keyword search answers
DigiKeySearchResponse(r) ==
    /\ digikey[r].pc = "awaitSearch"
    /\ \E outcome \in SearchOutcomes(DigiKeyPayloads) :
          digikey' = [digikey EXCEPT ![r] = digikeyAfterSearch(@, outcome)]
    /\ UNCHANGED <<credentials, now, tokenCache, issued, request, jlcpcb, mouser, started>>
    /\ UNCHANGED bomVars
    /\ UNCHANGED otherVars

\* the Mouser keyword search answers
MouserResponse(r) ==
    /\ mouser[r].pc = "awaitSearch"
    /\ \E outcome \in SearchOutcomes(MouserPayloads) :
          mouser' = [mouser EXCEPT ![r] = mouserAfterSearch(@, outcome)]
    /\ UNCHANGED <<credentials, now, tokenCache, issued, request, jlcpcb, digikey, started>>
    /\ UNCHANGED bomVars
    /\ UNCHANGED otherVars

\* Promise.all settles: the orchestrator returns its mapping, the endpoint
\* answers success with it, or success=false when a call threw
Respond(r) ==
    /\ request[r].pc = "waiting"
    /\ promiseAllSettled(EnabledOf(r), CallsOf(r))
    /\ request' = [request EXCEPT ![r].pc = "responded",
                                  ![r].response =
                      IF \E s \in EnabledOf(r) : CallsOf(r)[s].pc = "threw"
                      THEN [success |-> FALSE, results |-> <<>>]
                      ELSE [success |-> TRUE,
                            results |-> collectEnabled(EnabledOf(r), CallsOf(r))]]
    /\ UNCHANGED <<credentials, now, tokenCache, issued, jlcpcb, digikey, mouser, started>>
    /\ UNCHANGED bomVars
    /\ UNCHANGED otherVars

\* the response has been sent; the slot serves the next request
Retire(r) ==
    /\ request[r].pc = "responded"
    /\ \A s \in Suppliers : CallsOf(r)[s].pc \in {"idle", "returned", "threw"}
    /\ request' = [request EXCEPT ![r] = IdleRequest]
    /\ jlcpcb' = [jlcpcb EXCEPT ![r] = IdleCall]
    /\ digikey' = [digikey EXCEPT ![r] = IdleCall]
    /\ mouser' = [mouser EXCEPT ![r] = IdleCall]
    /\ UNCHANGED <<credentials, now, tokenCache, issued, started>>
    /\ UNCHANGED bomVars
    /\ UNCHANGED otherVars

\* time passes
Tick ==
    /\ now < MaxTicks * TokenMargin
    /\ now' = now + TokenMargin
    /\ UNCHANGED <<credentials, tokenCache, issued, request, jlcpcb, digikey, mouser, started>>
    /\ UNCHANGED bomVars
    /\ UNCHANGED otherVars

InitSearch ==
    /\ credentials \in Credentials
    /\ now = 0
    /\ tokenCache = [accessToken |-> 0, tokenExpiry |-> 0]
    /\ issued = <<>>
    /\ request = [r \in Slots |-> IdleRequest]
    /\ jlcpcb = [r \in Slots |-> IdleCall]
    /\ digikey = [r \in Slots |-> IdleCall]
    /\ mouser = [r \in Slots |-> IdleCall]
    /\ started = 0

\* no row is being processed
IdleBOM ==
    /\ row = MakeRow([Reference |-> Str_C1C2, Value |-> Str_100K])
    /\ pc = "done"
    /\ query = NoQuery
    /\ adapterCalls = [s \in Suppliers |-> 0]
    /\ inflight = {}
    /\ adapterResult = NoLists
    /\ result = NoResult

\* no search request is being served
IdleSearch ==
    /\ credentials = [clientId |-> "id", clientSecret |-> "secret", apiKey |-> "key"]
    /\ now = 0
    /\ tokenCache = [accessToken |-> 0, tokenExpiry |-> 0]
    /\ issued = <<>>
    /\ request = [r \in Slots |-> IdleRequest]
    /\ jlcpcb = [r \in Slots |-> IdleCall]
    /\ digikey = [r \in Slots |-> IdleCall]
    /\ mouser = [r \in Slots |-> IdleCall]
    /\ started = 0

\* no upload is being served and no function is being called
NoUpload == [phase |-> "idle"]

NoCall == [fn |-> "none"]

NoPage == [loading |-> FALSE]

IdleOther ==
    /\ upload = NoUpload
    /\ pure = NoCall
    /\ page = NoPage

vars == <<bomVars, searchVars, otherVars>>

(***************************************************************************)
(* Spec: processBOMRow on one BOM row.                                     *)
(***************************************************************************)
Init == InitBOM /\ IdleSearch /\ IdleOther

Next ==
    \/ ProcessBOMRowStart
    \/ \E s \in Suppliers : AdapterReturns(s)
    \/ ProcessBOMRowFinish

Spec == Init /\ [][Next]_vars

(***************************************************************************)
(* SpecSearch: search requests served one after the other, through the     *)
(* orchestrator or the endpoint, with any supplier list.                   *)
(***************************************************************************)
InitOneByOne == InitSearch /\ IdleBOM /\ IdleOther

NextSearch ==
    \/ \E params \in SearchQueries :
          StartSearch(1, "searchAllSuppliers", NoSupplierList, params)
    \/ \E listed \in BOOLEAN, ids \in SUBSET AllIds, params \in SearchQueries :
          /\ listed \/ ids = {}
          /\ StartSearch(1, "endpoint", [present |-> listed, ids |-> ids], params)
    \/ JLCPCBResponse(1)
    \/ DigiKeyTokenResponse(1)
    \/ DigiKeySearchResponse(1)
    \/ MouserResponse(1)
    \/ Respond(1)
    \/ Retire(1)

SpecSearch == InitOneByOne /\ [][NextSearch]_vars

(***************************************************************************)
(* SpecToken: the Digi-Key search calls of concurrent requests, each        *)
(* followed up to its return, sharing the client's token cache while time  *)
(* passes.                                                                 *)
(***************************************************************************)
DigiKeyOnly == [present |-> TRUE, ids |-> {"digikey"}]

TokenQueries == {Q_100K, Q_Empty}

InitConcurrent ==
    /\ InitSearch
    /\ digikeyIsConfigured(credentials)
    /\ IdleBOM
    /\ IdleOther

NextToken ==
    \/ \E r \in Slots, params \in TokenQueries :
          r = started + 1 /\ StartSearch(r, "endpoint", DigiKeyOnly, params)
    \/ \E r \in Slots : DigiKeyTokenResponse(r)
    \/ \E r \in Slots : DigiKeySearchResponse(r)
    \/ Tick

SpecToken == InitConcurrent /\ [][NextToken]_vars


(***************************************************************************)
(* The BOM upload endpoint: POST of api/bom-upload, from the parsed rows   *)
(* to the report.                                                          *)
(***************************************************************************)
\* a Part's string as the content of a row cell
Chars(str) ==
    CASE str = "" -> <<>>
      [] str = "C25804" -> <<"C","2","5","8","0","4">>
      [] str = "RC0402" -> <<"R","C","0","4","0","2">>
      [] str = "YAGEO" -> <<"Y","A","G","E","O">>
      [] str = "RES 100K" -> <<"R","E","S"," ","1","0","0","K">>
      [] str = "0402" -> <<"0","4","0","2">>
      [] str = "https://ds/1.pdf" -> <<"h","t","t","p","s",":","/","/","d","s","/","1",".","p","d","f">>

\* updatedRow[col] = value
Put(r, col, value) ==
    [c \in DOMAIN r \cup {col} |-> IF c = col THEN value ELSE r[c]]

\* if (value && !updatedRow[col]) updatedRow[col] = value, whatever the cell holds
FillAlways(r, col, str) == IF str # "" THEN Put(r, col, Chars(str)) ELSE r

\* if (value && !updatedRow[col]) updatedRow[col] = value
Fill(r, col, str) == IF str # "" /\ ~Truthy(r, col) THEN Put(r, col, Chars(str)) ELSE r

mergeSourcedData(r, res) ==
    IF res.matchedPart = NoPart THEN r
    ELSE LET part == res.matchedPart
             r1 == IF part.lcscPart # ""
                   THEN Put(Put(r, "LCSC Part #", Chars(part.lcscPart)),
                            "JLCPCB Part #", Chars(part.lcscPart))
                   ELSE r
             r2 == Fill(r1, "Manufacturer_Part_Number", part.manufacturerPartNumber)
             r3 == Fill(r2, "Manufacturer_Name", part.manufacturer)
             r4 == Fill(r3, "Datasheet", part.datasheet)
             r5 == Fill(r4, "Description", part.description)
         IN  Fill(r5, "CASE CODE (METRIC)", part.package)

\* the row POST pushes to sourcedRows for a result
sourcedRow(r, res) ==
    IF res.status = "matched" /\ res.matchedPart # NoPart
    THEN mergeSourcedData(r, res)
    ELSE r

\* processBOMRow up to the search: the result of a row that returns before
\* it, NoResult for a row that is searched
resultWithoutSearch(r) ==
    IF isExcludedFromBOM(r)
    THEN SourcingResult(r, NoPart, NoLists, "skipped", TextNote("Excluded from BOM"))
    ELSE IF isDNP(r)
    THEN SourcingResult(r, NoPart, NoLists, "skipped", TextNote("DNP (Do Not Populate)"))
    ELSE IF isAlreadySourced(r)
    THEN SourcingResult(r, NoPart, NoLists, "already_sourced",
                        TextNote("Already has LCSC/JLCPCB part number"))
    ELSE IF buildQuery(r).value = <<>> /\ buildQuery(r).manufacturerPartNumber = <<>>
    THEN SourcingResult(r, NoPart, NoLists, "not_found",
                        TextNote("No value or part number to search"))
    ELSE NoResult

\* processBOMRow from the mapping searchAllSuppliers resolved with
resultOfSearch(r, lists) ==
    LET searchResults == collectResults(lists)
        jlcpcbResults == ResultsOrEmpty(searchResults, "JLCPCB")
        digikeyResults == ResultsOrEmpty(searchResults, "Digi-Key")
        mouserResults == ResultsOrEmpty(searchResults, "Mouser")
        best == selectBestPart(jlcpcbResults, digikeyResults, mouserResults)
    IN  SourcingResult(r, best.part,
                       [s \in Suppliers |-> ResultsOrEmpty(searchResults, s)],
                       IF best.part # NoPart THEN "matched" ELSE "not_found",
                       best.notes)

\* results.filter(r => r.status === status).length
CountStatus(results, status) ==
    Cardinality({i \in DOMAIN results : results[i].status = status})

\* the statistics with matched and notFound told apart by the matched part
\* instead of the status
statsOfMatchedPart(results) ==
    [total |-> Len(results),
     matched |-> Cardinality({i \in DOMAIN results : results[i].matchedPart # NoPart}),
     notFound |-> Cardinality({i \in DOMAIN results : results[i].matchedPart = NoPart}),
     skipped |-> CountStatus(results, "skipped"),
     alreadySourced |-> CountStatus(results, "already_sourced")]

statsOf(results) ==
    [total |-> Len(results),
     matched |-> CountStatus(results, "matched"),
     notFound |-> CountStatus(results, "not_found"),
     skipped |-> CountStatus(results, "skipped"),
     alreadySourced |-> CountStatus(results, "already_sourced")]

NoStats == [total |-> 0]

\* the processBOMRow call of one row: not called yet
PendingJob ==
    [pc |-> "pending", inflight |-> {}, lists |-> NoLists,
     calls |-> [s \in Suppliers |-> 0]]

\* the rows of the loop start in any order, without awaiting the row before
mayStartRowUnordered(u, i) == TRUE

\* for (const row of bomRows) { const result = await processBOMRow(row); ... }:
\* the iteration of row i begins when the i-1 rows before it have been pushed
mayStartRow(u, i) == Len(u.results) = i - 1

(***************************************************************************)
(* The uploads of the model: parsed BOMs over one header, the column       *)
(* Description missing from it and the column Notes unknown to the code.   *)
(***************************************************************************)
MaxRows == 2

UploadRow(reference, value, dnp, exclude, lcsc, jlcpcbNo, mpn, maker, datasheet, case) ==
    [Reference |-> reference, Value |-> value, DNP |-> dnp,
     Manufacturer_Part_Number |-> mpn, Manufacturer_Name |-> maker,
     Datasheet |-> datasheet, Notes |-> <<"k","e","e","p",","," ","t","h","i","s">>]
    @@ ("Exclude from BOM" :> exclude) @@ ("LCSC Part #" :> lcsc)
    @@ ("JLCPCB Part #" :> jlcpcbNo) @@ ("CASE CODE (METRIC)" :> case)

Row_Plain == UploadRow(<<"R","1">>, Str_100K, <<>>, <<>>, <<>>, <<>>, <<>>, <<>>, <<>>, <<>>)
Row_Filled == UploadRow(<<"R","1">>, Str_100K, <<>>, <<>>, <<>>, <<>>, Str_mpn, <<"T","D","K">>, <<"o","l","d",".","p","d","f">>, <<"0","6","0","3">>)
Row_DNP == UploadRow(<<"R","1">>, Str_100K, Str_Yes, <<>>, <<>>, <<>>, <<>>, <<>>, <<>>, <<>>)
Row_DNPPart == UploadRow(<<"R","1">>, Str_100K, <<>>, <<>>, <<>>, <<>>, Str_dnp, <<>>, <<>>, <<>>)
Row_DNPOne == UploadRow(<<"R","1">>, Str_100K, <<"1">>, Str_no, <<>>, <<>>, <<>>, <<>>, <<>>, <<>>)
Row_Excluded == UploadRow(<<"R","1">>, Str_100K, Str_Yes, Str_Excluded, Str_lcsc, <<>>, <<>>, <<>>, <<>>, <<>>)
Row_Sourced == UploadRow(<<"R","1">>, Str_100K, <<>>, <<>>, Str_lcsc, <<>>, <<>>, <<>>, <<>>, <<>>)
Row_SourcedDNP == UploadRow(<<"R","1">>, Str_100K, Str_TRUE, <<>>, <<>>, Str_lcsc, <<>>, <<>>, <<>>, <<>>)
Row_Empty == UploadRow(<<"R","1">>, <<>>, <<>>, <<>>, <<>>, <<>>, <<>>, <<>>, <<>>, <<>>)

UploadRows ==
    {Row_Plain, Row_Filled, Row_DNP, Row_DNPPart, Row_DNPOne, Row_Excluded,
     Row_Sourced, Row_SourcedDNP, Row_Empty}

RECURSIVE RowsUpTo(_)
RowsUpTo(n) ==
    IF n = 0 THEN {<<>>}
    ELSE RowsUpTo(n - 1) \cup
         {Append(rs, r) : rs \in {x \in RowsUpTo(n - 1) : Len(x) = n - 1}, r \in UploadRows}

\* parseCSV gave at least one row (an empty BOM is answered 400)
UploadBOMs == RowsUpTo(MaxRows) \ {<<>>}

\* what the adapters may return for a row of an upload
UploadLists(s) ==
    IF s = "JLCPCB"
    THEN {<<>>,
          <<PartDetails(Part("JLCPCB", "RC0402", "C25804", 15900000, 1, ""),
                        "RC0402", "YAGEO", "RES 100K", "0402")>>}
    ELSE IF s = "Digi-Key"
    THEN {<<>>,
          <<PartDetails(Part("Digi-Key", "535-11585-2-ND", "", 80000, 250,
                             "https://ds/1.pdf"),
                        "RC0402", "YAGEO", "", "0402")>>}
    ELSE {<<>>, <<Part("Mouser", "667-ERJ-3RED3013V", "", 0, 0, "")>>}

(***************************************************************************)
(* Actions of an upload                                                    *)
(***************************************************************************)
\* the loop reaches row i: processBOMRow(row) runs to its return, and the
\* result and the row are pushed, or to its await of searchAllSuppliers
UploadStartRow(i) ==
    /\ upload.phase = "processing"
    /\ i \in DOMAIN upload.rows
    /\ upload.jobs[i].pc = "pending"
    /\ mayStartRow(upload, i)
    /\ LET r == upload.rows[i]
           early == resultWithoutSearch(r)
       IN  IF early # NoResult
           THEN upload' = [upload EXCEPT
                              !.jobs[i].pc = "done",
                              !.results = Append(@, early),
                              !.sourcedRows = Append(@, sourcedRow(r, early))]
           ELSE upload' = [upload EXCEPT
                              !.jobs[i].pc = "searching",
                              !.jobs[i].inflight = Suppliers,
                              !.jobs[i].calls = [s \in Suppliers |-> @[s] + 1]]
    /\ UNCHANGED <<bomVars, searchVars, pure, page>>

\* the search call of one adapter for row i returns
UploadAdapterReturns(i, s) ==
    /\ upload.phase = "processing"
    /\ i \in DOMAIN upload.rows
    /\ upload.jobs[i].pc = "searching"
    /\ s \in upload.jobs[i].inflight
    /\ \E l \in UploadLists(s) :
          upload' = [upload EXCEPT !.jobs[i].inflight = @ \ {s},
                                   !.jobs[i].lists[s] = l]
    /\ UNCHANGED <<bomVars, searchVars, pure, page>>

\* searchAllSuppliers resolves for row i: the part is selected, the result
\* pushed, and the row pushed with the part merged in
UploadFinishRow(i) ==
    /\ upload.phase = "processing"
    /\ i \in DOMAIN upload.rows
    /\ upload.jobs[i].pc = "searching"
    /\ upload.jobs[i].inflight = {}
    /\ LET r == upload.rows[i]
           res == resultOfSearch(r, upload.jobs[i].lists)
       IN  upload' = [upload EXCEPT
                         !.jobs[i].pc = "done",
                         !.results = Append(@, res),
                         !.sourcedRows = Append(@, sourcedRow(r, res))]
    /\ UNCHANGED <<bomVars, searchVars, pure, page>>

\* the loop is over: the statistics are computed and the report is sent
UploadRespond ==
    /\ upload.phase = "processing"
    /\ Len(upload.results) = Len(upload.rows)
    /\ upload' = [upload EXCEPT !.phase = "responded",
                                !.stats = statsOf(upload.results)]
    /\ UNCHANGED <<bomVars, searchVars, pure, page>>

InitUpload ==
    /\ upload \in {[phase |-> "processing", rows |-> rs,
                    jobs |-> [i \in DOMAIN rs |-> PendingJob],
                    results |-> <<>>, sourcedRows |-> <<>>, stats |-> NoStats] :
                   rs \in UploadBOMs}
    /\ pure = NoCall
    /\ page = NoPage
    /\ IdleBOM
    /\ IdleSearch

NextUpload ==
    \/ \E i \in 1..MaxRows : UploadStartRow(i)
    \/ \E i \in 1..MaxRows, s \in Suppliers : UploadAdapterReturns(i, s)
    \/ \E i \in 1..MaxRows : UploadFinishRow(i)
    \/ UploadRespond

SpecUpload == InitUpload /\ [][NextUpload]_vars

(***************************************************************************)
(* Properties of the part selection and of the row interpreter (Spec).     *)
(***************************************************************************)
Elements(l) == {l[i] : i \in 1..Len(l)}

JLCPCBScoresPositive == \E p \in Elements(adapterResult["JLCPCB"]) : scoreJLCPCBPart(p) > 0

DigiKeyScoresPositive == \E p \in Elements(adapterResult["Digi-Key"]) : scoreDistributorPart(p) > 0

MouserScoresPositive == \E p \in Elements(adapterResult["Mouser"]) : scoreDistributorPart(p) > 0

Searched == \A s \in Suppliers : adapterCalls[s] > 0

\* C1: the selection follows the supplier cascade, not a global maximum.
\* After a search, a JLCPCB candidate scoring > 0 makes the selected Part a
\* JLCPCB candidate whatever the distributors' scores; a Digi-Key Part is
\* selected only when no JLCPCB candidate scores > 0 and a Digi-Key one does;
\* a Mouser Part only when neither JLCPCB nor Digi-Key has one scoring > 0.
C1_CascadePrecedence ==
    (pc = "done" /\ Searched) =>
        /\ JLCPCBScoresPositive =>
              /\ result.matchedPart.supplier = "JLCPCB"
              /\ result.matchedPart \in Elements(adapterResult["JLCPCB"])
        /\ result.matchedPart.supplier = "Digi-Key" =>
              /\ ~JLCPCBScoresPositive
              /\ DigiKeyScoresPositive
              /\ result.matchedPart \in Elements(adapterResult["Digi-Key"])
        /\ result.matchedPart.supplier = "Mouser" =>
              /\ ~JLCPCBScoresPositive
              /\ ~DigiKeyScoresPositive
              /\ result.matchedPart \in Elements(adapterResult["Mouser"])

\* C1 witness: the only JLCPCB candidate scores 10 points, Digi-Key offers a
\* candidate scoring over 1000 points, and the JLCPCB candidate is selected.
C1_Witness ==
    /\ pc = "done"
    /\ Len(adapterResult["JLCPCB"]) = 1
    /\ scoreJLCPCBPart(adapterResult["JLCPCB"][1]) = Points(10)
    /\ \E p \in Elements(adapterResult["Digi-Key"]) :
          scoreDistributorPart(p) > Points(InStockPoints)
    /\ result.matchedPart = adapterResult["JLCPCB"][1]

\* C2: a row that is neither skipped nor already sourced is 'matched' exactly
\* when a search ran and some supplier's list holds a candidate scoring > 0;
\* otherwise it is 'not_found', with the note 'No matches found' after a
\* search and the nothing-to-search note when the row has neither a value
\* nor a manufacturer part number; 'matched' goes with an attached Part.
C2_MatchedIffPositiveCandidate ==
    (pc = "done" /\ result.status \notin {"skipped", "already_sourced"}) =>
        /\ result.status = "matched" <=>
              (Searched /\ (\/ JLCPCBScoresPositive
                            \/ DigiKeyScoresPositive
                            \/ MouserScoresPositive))
        /\ result.status # "matched" =>
              /\ result.status = "not_found"
              /\ Searched => result.notes = TextNote("No matches found")
              /\ ~Searched =>
                    /\ result.notes = TextNote("No value or part number to search")
                    /\ TrimOrEmpty(row, "Value") = <<>>
                    /\ TrimOrEmpty(row, "Manufacturer_Part_Number") = <<>>
        /\ Searched =>
              (TrimOrEmpty(row, "Value") # <<>>
               \/ TrimOrEmpty(row, "Manufacturer_Part_Number") # <<>>)
        /\ result.status = "matched" <=> result.matchedPart # NoPart

\* C2 witness: a search ran, every supplier returned candidates, none of
\* them scores > 0, and the row is 'not_found'.
C2_Witness ==
    /\ pc = "done"
    /\ Searched
    /\ \A s \in Suppliers : Len(adapterResult[s]) > 0
    /\ result.status = "not_found"
    /\ result.notes = TextNote("No matches found")

EqualsIgnoreCase(a, b) ==
    /\ Len(a) = Len(b)
    /\ \A i \in 1..Len(a) : toUpperChar(a[i]) = toUpperChar(b[i])

SaysExclude(r) ==
    /\ Has(r, "Exclude from BOM")
    /\ \/ EqualsIgnoreCase(r["Exclude from BOM"], <<"Y","E","S">>)
       \/ EqualsIgnoreCase(r["Exclude from BOM"], <<"T","R","U","E">>)
       \/ EqualsIgnoreCase(r["Exclude from BOM"],
             <<"E","X","C","L","U","D","E","D"," ","F","R","O","M"," ","B","O","M">>)

\* C10: a row whose 'Exclude from BOM' cell case-insensitively equals 'yes',
\* 'true' or 'excluded from bom' ends 'skipped' with the excluded-from-BOM
\* note whatever its other cells hold, and no search is ever made for it.
C10_ExcludedAlwaysSkipped ==
    SaysExclude(row) =>
        /\ pc # "searching"
        /\ \A s \in Suppliers : adapterCalls[s] = 0
        /\ query = NoQuery
        /\ pc = "done" =>
              /\ result.status = "skipped"
              /\ result.notes = TextNote("Excluded from BOM")
              /\ result.matchedPart = NoPart

\* C10 witness: an excluded row that is also marked DNP, already carries a
\* cross-reference id and has a value and a part number, processed.
C10_Witness ==
    /\ pc = "done"
    /\ Has(row, "Exclude from BOM")
    /\ row["Exclude from BOM"] = Str_Excluded
    /\ row["DNP"] = Str_Yes
    /\ row["LCSC Part #"] = Str_lcsc
    /\ row["Value"] = Str_100K
    /\ row["Manufacturer_Part_Number"] = Str_mpn
    /\ result.status = "skipped"

(***************************************************************************)
(* Properties of the adapters, the orchestrator and the endpoint           *)
(* (SpecSearch).                                                           *)
(***************************************************************************)
\* the suppliers a request asks for: all of them through searchAllSuppliers
\* or without a suppliers list, else the listed ones
RequestedSuppliers(r) ==
    IF request[r].mode = "searchAllSuppliers" \/ ~request[r].suppliers.present
    THEN Suppliers
    ELSE {s \in Suppliers : SupplierId(s) \in request[r].suppliers.ids}

\* the keyword an adapter would send upstream, trimmed
EffectiveKeyword(s, params) ==
    IF s = "JLCPCB" THEN jlcpcbSearchTerm(params) ELSE distributorKeyword(params)

NoRequests(call) == call.tokenReqs = 0 /\ call.searchReqs = 0

\* C3: no adapter search call raises, and a call that met a transport
\* failure, an authentication failure, a non-OK response or a malformed
\* payload completes with the empty list.
C3_FailureGivesEmptyList ==
    \A r \in Slots : \A s \in Suppliers :
        /\ CallsOf(r)[s].pc # "threw"
        /\ (CallsOf(r)[s].pc = "returned" /\ CallsOf(r)[s].failed)
              => CallsOf(r)[s].ret = <<>>

\* C4: an unconfigured distributor adapter (Digi-Key with an empty client id
\* or client secret, Mouser with an empty API key) has returned the empty
\* list as soon as its search is called, having issued neither a token
\* request nor a search request.
C4_UnconfiguredNoNetwork ==
    \A r \in Slots :
        /\ (digikey[r].pc # "idle"
              /\ (credentials.clientId = "" \/ credentials.clientSecret = ""))
              => (digikey[r].pc = "returned" /\ digikey[r].ret = <<>>
                    /\ NoRequests(digikey[r]))
        /\ (mouser[r].pc # "idle" /\ credentials.apiKey = "")
              => (mouser[r].pc = "returned" /\ mouser[r].ret = <<>>
                    /\ NoRequests(mouser[r]))

C4_Witness ==
    \E r \in Slots :
        /\ request[r].pc = "responded"
        /\ credentials.clientId # "" /\ credentials.clientSecret = ""
        /\ digikey[r].pc = "returned"
        /\ distributorKeyword(request[r].params) # <<>>
        /\ mouser[r].searchReqs = 1

\* C5: a search whose effective keyword is empty after trimming has returned
\* the empty list as soon as it is called, without any upstream request.
C5_EmptyKeywordNoUpstreamCall ==
    \A r \in Slots : \A s \in Suppliers :
        (CallsOf(r)[s].pc # "idle" /\ EffectiveKeyword(s, request[r].params) = <<>>)
            => (CallsOf(r)[s].pc = "returned" /\ CallsOf(r)[s].ret = <<>>
                  /\ NoRequests(CallsOf(r)[s]))

\* C6: in the mapping of a response, a supplier is a key iff it was enabled
\* for the request and its adapter returned at least one Part; no key maps
\* to the empty list; the adapter of a supplier that is not enabled is not
\* called.
C6_KeysIffEnabledAndNonEmpty ==
    \A r \in Slots :
        /\ request[r].pc = "responded" =>
              /\ DOMAIN request[r].response.results =
                    {s \in RequestedSuppliers(r) : Len(CallsOf(r)[s].ret) > 0}
              /\ \A s \in DOMAIN request[r].response.results :
                    Len(request[r].response.results[s]) > 0
        /\ \A s \in Suppliers \ RequestedSuppliers(r) :
              CallsOf(r)[s].pc = "idle" /\ NoRequests(CallsOf(r)[s])

C6_Witness ==
    \E r \in Slots :
        /\ request[r].pc = "responded"
        /\ request[r].suppliers.present
        /\ "digikey" \notin request[r].suppliers.ids
        /\ "jlcpcb" \in request[r].suppliers.ids
        /\ mouser[r].searchReqs = 1 /\ mouser[r].ret = <<>>
        /\ DOMAIN request[r].response.results = {"JLCPCB"}
        /\ digikeyIsConfigured(credentials)

\* a response has been given: every requested adapter call has returned,
\* the answer is success=true and each entry of the mapping is the list the
\* supplier's own adapter returned
AnsweredFromOwnLists(r) ==
    /\ \A s \in RequestedSuppliers(r) : CallsOf(r)[s].pc = "returned"
    /\ request[r].response.success
    /\ \A s \in DOMAIN request[r].response.results :
          request[r].response.results[s] = CallsOf(r)[s].ret
    /\ \A s \in RequestedSuppliers(r) :
          Len(CallsOf(r)[s].ret) > 0 => s \in DOMAIN request[r].response.results

\* while a request waits, the completion of one adapter's call leaves the
\* calls of the other adapters as they are
OneAdapterAtATime(r) ==
    request[r].pc = "waiting" /\ request'[r].pc = "waiting" =>
        \A s \in Suppliers :
            CallsOf(r)[s] # CallsOf(r)[s]' =>
                \A t \in Suppliers \ {s} : CallsOf(r)[t]' = CallsOf(r)[t]

\* C7: the orchestrator answers only after every invoked adapter call has
\* completed; whatever the order in which the calls complete or fail, each
\* supplier's entry is the list its own adapter produced, the calls do not
\* affect each other, and the endpoint answers success=true.
C7_WaitsForAllAndOrderFree ==
    /\ [](\A r \in Slots : request[r].pc = "responded" => AnsweredFromOwnLists(r))
    /\ [][\A r \in Slots : OneAdapterAtATime(r)]_vars

C7_Witness ==
    \E r \in Slots :
        /\ request[r].pc = "responded"
        /\ RequestedSuppliers(r) = Suppliers
        /\ mouser[r].failed /\ digikey[r].failed
        /\ jlcpcb[r].searchReqs = 2
        /\ DOMAIN request[r].response.results = {"JLCPCB"}

(***************************************************************************)
(* Properties of the Digi-Key token cache (SpecToken).                     *)
(***************************************************************************)
\* the token response that issued a token
ResponsesOf(token) == {i \in DOMAIN issued : issued[i].token = token}

\* C8: the bearer token of every Digi-Key search request was, when
\* getAccessToken checked it, either the cached token with the time strictly
\* before the time its response was received + (expires_in - 300), and then
\* the call made no token request, or a token fetched by the same call, the
\* fetch complete when the search request is issued.
C8_BearerCachedValidOrFresh ==
    \A r \in Slots :
        digikey[r].searchReqs > 0 =>
            \E i \in ResponsesOf(digikey[r].token) :
                \/ /\ digikey[r].tokenFrom = "cache"
                   /\ digikey[r].tokenReqs = 0
                   /\ issued[i].time <= digikey[r].checkedAt
                   /\ digikey[r].checkedAt < issued[i].time + (issued[i].expiresIn - 300)
                \/ /\ digikey[r].tokenFrom = "fetch"
                   /\ digikey[r].tokenReqs = 1
                   /\ issued[i].by = r
                   /\ issued[i].time >= digikey[r].checkedAt

C8_Witness ==
    \E r1, r2 \in Slots :
        /\ digikey[r1].tokenFrom = "fetch" /\ digikey[r1].searchReqs = 1
        /\ digikey[r2].tokenFrom = "cache" /\ digikey[r2].searchReqs = 1
        /\ digikey[r2].token = digikey[r1].token
        /\ \E i \in ResponsesOf(digikey[r1].token) :
              digikey[r2].checkedAt > issued[i].time

\* C9: the cached token and expiry always come from one token response, the
\* one received last; every call past getAccessToken either took the cached
\* token without a token request or made its own single token request.
C9_CachePairFromLastFetch ==
    /\ IF issued = <<>>
       THEN tokenCache.accessToken = 0 /\ tokenCache.tokenExpiry = 0
       ELSE LET last == issued[Len(issued)]
            IN  /\ tokenCache.accessToken = last.token
                /\ tokenCache.tokenExpiry = last.time + (last.expiresIn - 300)
    /\ \A r \in Slots :
          /\ digikey[r].tokenFrom = "cache" =>
                digikey[r].tokenReqs = 0 /\ ResponsesOf(digikey[r].token) # {}
          /\ digikey[r].tokenFrom = "fetch" =>
                /\ digikey[r].tokenReqs = 1
                /\ \E i \in ResponsesOf(digikey[r].token) : issued[i].by = r
          /\ digikey[r].pc = "awaitToken" => digikey[r].tokenReqs = 1

\* two token fetches were in flight together and both have completed, the
\* one that completed last carrying the earlier expiry
C9_Witness ==
    /\ Len(issued) = 2
    /\ issued[1].by # issued[2].by
    /\ digikey[issued[2].by].checkedAt <= issued[1].time
    /\ issued[2].time + issued[2].expiresIn < issued[1].time + issued[1].expiresIn
    /\ \A r \in Slots : digikey[r].pc # "awaitToken"

(***************************************************************************)
(* Properties of the BOM upload (SpecUpload).                              *)
(***************************************************************************)
UploadedRows == DOMAIN upload.rows

RowDone(i) == upload.jobs[i].pc = "done"

NoSearchFor(i) ==
    /\ upload.jobs[i].pc # "searching"
    /\ \A s \in Suppliers : upload.jobs[i].calls[s] = 0

\* the DNP cell says yes or true, or the part number cell says DNP, in any case
SaysDNP(r) ==
    \/ /\ Has(r, "DNP")
       /\ \/ EqualsIgnoreCase(r["DNP"], <<"Y","E","S">>)
          \/ EqualsIgnoreCase(r["DNP"], <<"T","R","U","E">>)
    \/ /\ Has(r, "Manufacturer_Part_Number")
       /\ EqualsIgnoreCase(r["Manufacturer_Part_Number"], <<"D","N","P">>)

\* the DNP cell holds any text at all (a truthy string), or the part number
\* cell says DNP
DNPFlagTruthy(r) ==
    \/ Has(r, "DNP") /\ r["DNP"] # <<>>
    \/ /\ Has(r, "Manufacturer_Part_Number")
       /\ EqualsIgnoreCase(r["Manufacturer_Part_Number"], <<"D","N","P">>)

SkippedAsDNP(i) ==
    /\ NoSearchFor(i)
    /\ RowDone(i) =>
          /\ upload.results[i].status = "skipped"
          /\ upload.results[i].notes = TextNote("DNP (Do Not Populate)")
          /\ upload.sourcedRows[i] = upload.rows[i]

\* C11 (as amended): a row that is not excluded from the BOM and whose DNP
\* cell case-insensitively equals 'yes' or 'true', or whose manufacturer
\* part number cell case-insensitively equals 'DNP', ends 'skipped' with the
\* do-not-populate note; no adapter is called for it and the row is pushed
\* to the output as it was.
C11_DNPSkipped ==
    \A i \in UploadedRows :
        (SaysDNP(upload.rows[i]) /\ ~SaysExclude(upload.rows[i])) => SkippedAsDNP(i)

C11_Witness ==
    /\ upload.phase = "responded"
    /\ \E i \in UploadedRows :
          /\ upload.rows[i].DNP = <<>>
          /\ SaysDNP(upload.rows[i])
          /\ upload.results[i].status = "skipped"
    /\ \E i \in UploadedRows : upload.results[i].status = "matched"

\* C11 (as stated): the same for every row that is not excluded and whose
\* DNP cell is truthy, that is, holds any non-empty text such as '1'.
C11_TruthyFlagSkipped ==
    \A i \in UploadedRows :
        (DNPFlagTruthy(upload.rows[i]) /\ ~SaysExclude(upload.rows[i]))
            => SkippedAsDNP(i)

\* a cross-reference cell of the row is not empty
HasCrossReference(r) ==
    \/ Has(r, "LCSC Part #") /\ r["LCSC Part #"] # <<>>
    \/ Has(r, "JLCPCB Part #") /\ r["JLCPCB Part #"] # <<>>

AlreadySourced(i) ==
    /\ NoSearchFor(i)
    /\ RowDone(i) => upload.results[i].status = "already_sourced"

\* C12 (as amended): a row with a non-empty cross-reference cell that is
\* neither excluded from the BOM nor marked do-not-populate is
\* 'already_sourced'; no search call is made for any row with a non-empty
\* cross-reference cell.
C12_SourcedUnlessSkipped ==
    \A i \in UploadedRows :
        HasCrossReference(upload.rows[i]) =>
            /\ NoSearchFor(i)
            /\ (~SaysExclude(upload.rows[i]) /\ ~SaysDNP(upload.rows[i]))
                  => AlreadySourced(i)

C12_Witness ==
    /\ upload.phase = "responded"
    /\ \E i \in UploadedRows :
          /\ upload.rows[i]["LCSC Part #"] # <<>>
          /\ upload.results[i].status = "already_sourced"
          /\ upload.stats.alreadySourced = 1

\* C12 (as stated): every row with a non-empty cross-reference cell is
\* 'already_sourced' and no search call is made for it.
C12_AlwaysAlreadySourced ==
    \A i \in UploadedRows :
        HasCrossReference(upload.rows[i]) => AlreadySourced(i)

Outcomes == {"matched", "not_found", "skipped", "already_sourced"}

RowsWith(status) == {i \in DOMAIN upload.results : upload.results[i].status = status}

\* C13: every processed row has exactly one result, whose outcome is one of
\* matched, not_found, skipped and already_sourced; in the report each count
\* is the number of rows with that outcome, and matched + notFound + skipped
\* + alreadySourced = total = the number of parsed data rows.
C13_OneOutcomePerRow ==
    /\ Len(upload.results) <= Len(upload.rows)
    /\ \A i \in UploadedRows :
          /\ RowDone(i) <=> i \in DOMAIN upload.results
          /\ RowDone(i) =>
                /\ upload.results[i].status \in Outcomes
                /\ upload.results[i].originalRow = upload.rows[i]
    /\ upload.phase = "responded" =>
          /\ Len(upload.results) = Len(upload.rows)
          /\ upload.stats.total = Len(upload.rows)
          /\ upload.stats.matched = Cardinality(RowsWith("matched"))
          /\ upload.stats.notFound = Cardinality(RowsWith("not_found"))
          /\ upload.stats.skipped = Cardinality(RowsWith("skipped"))
          /\ upload.stats.alreadySourced = Cardinality(RowsWith("already_sourced"))
          /\ upload.stats.matched + upload.stats.notFound + upload.stats.skipped
                + upload.stats.alreadySourced = upload.stats.total

C13_Witness ==
    /\ upload.phase = "responded"
    /\ upload.stats.total = 2
    /\ upload.stats.skipped = 1
    /\ upload.stats.matched = 1

FilledColumns ==
    {"Manufacturer_Part_Number", "Manufacturer_Name", "Datasheet", "Description",
     "CASE CODE (METRIC)"}

CrossReferenceColumns == {"LCSC Part #", "JLCPCB Part #"}

\* the field of the part a filled column is taken from
PartFieldFor(part, col) ==
    CASE col = "Manufacturer_Part_Number" -> part.manufacturerPartNumber
      [] col = "Manufacturer_Name" -> part.manufacturer
      [] col = "Datasheet" -> part.datasheet
      [] col = "Description" -> part.description
      [] col = "CASE CODE (METRIC)" -> part.package

CellEmpty(r, col) == ~Has(r, col) \/ r[col] = <<>>

SameCell(in, out, col) ==
    /\ Has(out, col) <=> Has(in, col)
    /\ Has(in, col) => out[col] = in[col]

\* C14: the output row of a row whose outcome is not matched is the input
\* row.  In the output row of a matched row the two cross-reference columns
\* hold the part's cross-reference id if it has one, each of manufacturer
\* part number, manufacturer name, datasheet, description and case code
\* holds the part's field if the input cell was empty and the part has the
\* field, and every other cell is the input cell; no cell that was not
\* empty in the input row is changed.
C14_MergeFillsGapsOnly ==
    \A i \in DOMAIN upload.sourcedRows :
        LET in == upload.rows[i]
            out == upload.sourcedRows[i]
            part == upload.results[i].matchedPart
        IN  /\ \A col \in DOMAIN in :
                  in[col] # <<>> => (Has(out, col) /\ out[col] = in[col])
            /\ upload.results[i].status # "matched" => out = in
            /\ upload.results[i].status = "matched" =>
                  /\ part # NoPart
                  /\ DOMAIN out \subseteq
                        DOMAIN in \cup FilledColumns \cup CrossReferenceColumns
                  /\ \A col \in CrossReferenceColumns :
                        IF part.lcscPart # ""
                        THEN Has(out, col) /\ out[col] = Chars(part.lcscPart)
                        ELSE SameCell(in, out, col)
                  /\ \A col \in FilledColumns :
                        IF CellEmpty(in, col) /\ PartFieldFor(part, col) # ""
                        THEN Has(out, col) /\ out[col] = Chars(PartFieldFor(part, col))
                        ELSE SameCell(in, out, col)
                  /\ \A col \in DOMAIN in \ (FilledColumns \cup CrossReferenceColumns) :
                        SameCell(in, out, col)

C14_Witness ==
    \E i \in DOMAIN upload.sourcedRows :
        /\ upload.results[i].status = "matched"
        /\ upload.results[i].matchedPart.supplier = "JLCPCB"
        /\ upload.rows[i].Manufacturer_Name = <<"T","D","K">>
        /\ upload.sourcedRows[i].Manufacturer_Name = <<"T","D","K">>
        /\ upload.sourcedRows[i]["LCSC Part #"] = Str_lcsc
        /\ Has(upload.sourcedRows[i], "Description")

StartedRows == {i \in UploadedRows : upload.jobs[i].pc # "pending"}

SearchingRows == {i \in UploadedRows : upload.jobs[i].pc = "searching"}

CalledRows == {i \in UploadedRows : \E s \in Suppliers : upload.jobs[i].calls[s] > 0}

\* C19: rows are processed one after another: when row i has been started
\* or an adapter has been called for it, every row before it is done, with
\* no adapter call in flight and its result and its merged row pushed; at
\* most one row is being searched at any time.
C19_RowsOneAfterAnother ==
    /\ \A i \in StartedRows \cup CalledRows : \A j \in 1..(i - 1) :
          /\ RowDone(j)
          /\ upload.jobs[j].inflight = {}
          /\ j \in DOMAIN upload.results
          /\ j \in DOMAIN upload.sourcedRows
    /\ Cardinality(SearchingRows) <= 1
    /\ \A i \in UploadedRows : upload.jobs[i].inflight # {} => i \in SearchingRows

C19_Witness ==
    /\ Len(upload.rows) = 2
    /\ Len(upload.results) = 1
    /\ upload.results[1].status = "matched"
    /\ upload.jobs[2].pc = "searching"
    /\ upload.jobs[2].inflight # {}
    /\ upload.jobs[2].inflight # Suppliers

(***************************************************************************)
(* Properties of the adapters' upstream exchanges (SpecSearch).            *)
(***************************************************************************)
\* the upstream exchanges that fail (the fetch rejects) or answer non-OK
FailedSearches == [kind : {"reject", "notOk"}, parsed : {<<>>}]

FailedTokenFetches == [kind : {"reject", "notOk"}, token : {0}, expiresIn : {0}]

\* the call has ended with the empty list and has issued no request since
EndedEmpty(before, after) ==
    /\ after.pc = "returned"
    /\ after.ret = <<>>
    /\ after.searchReqs = before.searchReqs
    /\ after.tokenReqs = before.tokenReqs

\* C20: when an upstream request of an adapter's search call fails or is
\* answered non-OK, the call ends there with the empty list: the adapter
\* issues no further upstream request in that call.
C20_NoRetryAfterFailure ==
    [][\A r \in Slots :
          /\ \A outcome \in FailedSearches :
                /\ ( /\ jlcpcbAwaits(jlcpcb[r])
                     /\ ~jlcpcbAwaitsFallback(jlcpcb[r])
                     /\ jlcpcb'[r] = jlcpcbAfterFirst(jlcpcb[r], request[r].params, outcome) )
                      => EndedEmpty(jlcpcb[r], jlcpcb'[r])
                /\ ( /\ jlcpcbAwaitsFallback(jlcpcb[r])
                     /\ jlcpcb'[r] = jlcpcbAfterFallback(jlcpcb[r], request[r].params, outcome) )
                      => EndedEmpty(jlcpcb[r], jlcpcb'[r])
                /\ ( /\ digikey[r].pc = "awaitSearch"
                     /\ digikey'[r] = digikeyAfterSearch(digikey[r], outcome) )
                      => EndedEmpty(digikey[r], digikey'[r])
                /\ ( /\ mouser[r].pc = "awaitSearch"
                     /\ mouser'[r] = mouserAfterSearch(mouser[r], outcome) )
                      => EndedEmpty(mouser[r], mouser'[r])
          /\ \A outcome \in FailedTokenFetches :
                ( /\ digikey[r].pc = "awaitToken"
                  /\ digikey'[r] = digikeyAfterToken(digikey[r], request[r].params, outcome) )
                   => EndedEmpty(digikey[r], digikey'[r])
      ]_vars

(***************************************************************************)
(* The scoring functions applied to Parts that differ in one field.        *)
(* The stocks lie on both sides of the in-stock threshold and of the cap   *)
(* of the stock points (MaxStockPoints * StockDivisor units), the prices   *)
(* on both sides of 0 and of the price at which the price points reach 0   *)
(* ($5.00).                                                                *)
(***************************************************************************)
StockSamples == {-5, 0, 1, 99999, 100000, 9999999, 10000000, 15900000}

PriceSamples == {-1, 0, 1, 250, 4999, 5000, 6000}

Scorers == {"scoreJLCPCBPart", "scoreDistributorPart"}

ScoreParts ==
    {Part("JLCPCB", "C25804", lcscPart, stock, price, datasheet) :
        lcscPart \in {"", "C25804"}, stock \in StockSamples,
        price \in PriceSamples, datasheet \in {"", "https://ds/1.pdf"}}

scoreWith(scorer, part) ==
    IF scorer = "scoreJLCPCBPart" THEN scoreJLCPCBPart(part)
    ELSE scoreDistributorPart(part)

\* the scorer is applied to a part, to the part with another stock and to
\* the part with another price
ApplyScore ==
    /\ pure.fn = "score"
    /\ ~pure.done
    /\ pure' = [pure EXCEPT
                   !.done = TRUE,
                   !.score = scoreWith(pure.scorer, pure.part),
                   !.scoreOtherStock =
                       scoreWith(pure.scorer, [pure.part EXCEPT !.stock = pure.otherStock]),
                   !.scoreOtherPrice =
                       scoreWith(pure.scorer, [pure.part EXCEPT !.price = pure.otherPrice])]
    /\ UNCHANGED <<bomVars, searchVars, upload, page>>

InitScore ==
    /\ pure \in {[fn |-> "score", scorer |-> scorer, part |-> part,
                  otherStock |-> stock, otherPrice |-> price, done |-> FALSE,
                  score |-> 0, scoreOtherStock |-> 0, scoreOtherPrice |-> 0] :
                 scorer \in Scorers, part \in ScoreParts,
                 stock \in StockSamples, price \in PriceSamples}
    /\ upload = NoUpload
    /\ page = NoPage
    /\ IdleBOM
    /\ IdleSearch

NextScore == ApplyScore

SpecScore == InitScore /\ [][NextScore]_vars

\* C17: both scoring functions are monotonic in stock and anti-monotonic in
\* price: of two Parts equal in every field except stock the one with the
\* larger stock never scores lower, and of two Parts equal in every field
\* except price, both prices > 0, the one with the larger price never
\* scores higher.
C17_ScoreMonotonic ==
    (pure.fn = "score" /\ pure.done) =>
        /\ pure.otherStock >= pure.part.stock => pure.scoreOtherStock >= pure.score
        /\ pure.otherStock <= pure.part.stock => pure.scoreOtherStock <= pure.score
        /\ (pure.part.price > 0 /\ pure.otherPrice >= pure.part.price)
              => pure.scoreOtherPrice <= pure.score
        /\ (pure.otherPrice > 0 /\ pure.otherPrice <= pure.part.price)
              => pure.scoreOtherPrice >= pure.score

C17_Witness ==
    /\ pure.fn = "score"
    /\ pure.done
    /\ pure.scorer = "scoreJLCPCBPart"
    /\ pure.part.stock > 0
    /\ pure.otherStock > pure.part.stock
    /\ pure.scoreOtherStock > pure.score
    /\ pure.part.price > 0
    /\ pure.otherPrice > pure.part.price
    /\ pure.scoreOtherPrice < pure.score

(***************************************************************************)
(* JLCPCBClient.normalizeFootprint applied to footprint strings.           *)
(***************************************************************************)
\* Object.entries(footprintMap): the keys that are array indices ('1206',
\* '1210', '2010', '2512') come first, in ascending order, and the keys
\* with a leading zero follow in the order they were written
footprintMapKeys ==
    << <<"1","2","0","6">>, <<"1","2","1","0">>, <<"2","0","1","0">>,
       <<"2","5","1","2">>, <<"0","4","0","2">>, <<"0","6","0","3">>,
       <<"0","8","0","5">> >>

\* the first 4-digit code with its leading zeros dropped, as a number prints
normalizeFootprintAsNumber(footprint) ==
    IF SizeMatches(footprint) # {}
    THEN LET i == Leftmost(SizeMatches(footprint))
         IN  IF footprint[i] = "0" THEN SubSeq(footprint, i + 1, i + 3)
             ELSE SubSeq(footprint, i, i + 3)
    ELSE footprint

normalizeFootprint(footprint) ==
    IF SizeMatches(footprint) # {}
    THEN LET i == Leftmost(SizeMatches(footprint))
         IN  SubSeq(footprint, i, i + 3)
    ELSE LET found == {k \in DOMAIN footprintMapKeys :
                          includes(toLowerCase(footprint), footprintMapKeys[k])}
         IN  IF found # {} THEN footprintMapKeys[Leftmost(found)]
             ELSE footprint

MaxFootprintLen == 5

FootprintChars == {"0", "4", "2", "_", " "}

RECURSIVE FootprintsUpTo(_)
FootprintsUpTo(n) ==
    IF n = 0 THEN {<<>>}
    ELSE FootprintsUpTo(n - 1) \cup
         {Append(f, c) : f \in {x \in FootprintsUpTo(n - 1) : Len(x) = n - 1},
                         c \in FootprintChars}

Str_0402Metric ==
    <<"0","4","0","2"," ","(","1","0","0","5"," ","M","e","t","r","i","c",")">>

\* every string over FootprintChars up to MaxFootprintLen, the footprint of
\* the spec, a KiCad footprint name, and names in which no code stands
\* alone: with one code, with two codes of the map, with none
Footprints ==
    FootprintsUpTo(MaxFootprintLen)
    \cup {Str_0402Metric, Str_fp,
          <<"R","0","6","0","3","x">>,
          <<"C","0","4","0","2","_","1","2","0","6","x">>,
          <<"S","O","T","-","2","3">>,
          <<"1","2","3","4","5">>}

ApplyNormalizeFootprint ==
    /\ pure.fn = "normalizeFootprint"
    /\ ~pure.done
    /\ pure' = [pure EXCEPT
                   !.done = TRUE,
                   !.once = normalizeFootprint(pure.footprint),
                   !.twice = normalizeFootprint(normalizeFootprint(pure.footprint))]
    /\ UNCHANGED <<bomVars, searchVars, upload, page>>

InitFootprint ==
    /\ pure \in {[fn |-> "normalizeFootprint", footprint |-> f, done |-> FALSE,
                  once |-> <<>>, twice |-> <<>>] : f \in Footprints}
    /\ upload = NoUpload
    /\ page = NoPage
    /\ IdleBOM
    /\ IdleSearch

NextFootprint == ApplyNormalizeFootprint

SpecFootprint == InitFootprint /\ [][NextFootprint]_vars

\* C18: normalizeFootprint is idempotent: normalizing its result gives the
\* result again; a string of exactly four digits is returned unchanged, and
\* '0402 (1005 Metric)' normalizes to '0402'.
C18_NormalizeIdempotent ==
    (pure.fn = "normalizeFootprint" /\ pure.done) =>
        /\ pure.twice = pure.once
        /\ (Len(pure.footprint) = 4 /\ \A i \in 1..4 : IsDigit(pure.footprint[i]))
              => pure.once = pure.footprint
        /\ pure.footprint = Str_0402Metric => pure.once = <<"0","4","0","2">>

C18_Witness ==
    /\ pure.fn = "normalizeFootprint"
    /\ pure.done
    /\ pure.footprint = Str_0402Metric
    /\ pure.once = <<"0","4","0","2">>
    /\ pure.twice = pure.once

(***************************************************************************)
(* The adapters' parsers applied to upstream payloads.  A JavaScript value *)
(* is a record tagged with its type; a number is held in thousandths       *)
(* (milli), which is exact for the integers and the prices of the model.   *)
(***************************************************************************)
JSUndefined == [t |-> "undefined"]

JSNull == [t |-> "null"]

JSNaN == [t |-> "NaN"]

JSNumber(milli) == [t |-> "number", milli |-> milli]

JSString(s) == [t |-> "string", s |-> s]

\* the truthiness of a value: 0, NaN, '', null and undefined are falsy
jsTruthy(v) ==
    CASE v.t = "number" -> v.milli # 0
      [] v.t = "string" -> v.s # <<>>
      [] OTHER -> FALSE

\* a || b
jsOr(a, b) == IF jsTruthy(a) THEN a ELSE b

DigitChars == <<"0","1","2","3","4","5","6","7","8","9">>

DigitValue(c) == (CHOOSE d \in 1..10 : DigitChars[d] = c) - 1

\* the length of the run of digits of s that starts at place i
RECURSIVE DigitRun(_, _)
DigitRun(s, i) ==
    IF i <= Len(s) /\ IsDigit(s[i]) THEN 1 + DigitRun(s, i + 1) ELSE 0

RECURSIVE DigitsValue(_)
DigitsValue(ds) ==
    IF ds = <<>> THEN 0
    ELSE 10 * DigitsValue(SubSeq(ds, 1, Len(ds) - 1)) + DigitValue(ds[Len(ds)])

RECURSIVE NatChars(_)
NatChars(n) ==
    IF n < 10 THEN <<DigitChars[n + 1]>>
    ELSE NatChars(n \div 10) \o <<DigitChars[(n % 10) + 1]>>

\* the digits after the decimal point of a number of thousandths
FractionChars(m) ==
    IF m = 0 THEN <<>>
    ELSE IF m % 100 = 0 THEN <<".", DigitChars[(m \div 100) + 1]>>
    ELSE IF m % 10 = 0
    THEN <<".", DigitChars[(m \div 100) + 1], DigitChars[((m \div 10) % 10) + 1]>>
    ELSE <<".", DigitChars[(m \div 100) + 1], DigitChars[((m \div 10) % 10) + 1],
           DigitChars[(m % 10) + 1]>>

\* String(v)
jsString(v) ==
    CASE v.t = "string" -> v.s
      [] v.t = "number" ->
            LET abs == IF v.milli < 0 THEN 0 - v.milli ELSE v.milli
            IN  (IF v.milli < 0 THEN <<"-">> ELSE <<>>)
                \o NatChars(abs \div 1000) \o FractionChars(abs % 1000)
      [] v.t = "undefined" -> <<"u","n","d","e","f","i","n","e","d">>
      [] v.t = "null" -> <<"n","u","l","l">>
      [] OTHER -> <<"N","a","N">>

Signed(s) == Len(s) > 0 /\ s[1] \in {"-", "+"}

Unsigned(s) == IF Signed(s) THEN Tail(s) ELSE s

SignOf(s) == IF Len(s) > 0 /\ s[1] = "-" THEN -1 ELSE 1

\* parseInt(v): the argument as a string, leading blanks skipped, an
\* optional sign, then the leading run of decimal digits; NaN without one
parseInt(v) ==
    LET t == trimStart(jsString(v))
        body == Unsigned(t)
        n == DigitRun(body, 1)
    IN  IF n = 0 THEN JSNaN
        ELSE JSNumber(SignOf(t) * 1000 * DigitsValue(SubSeq(body, 1, n)))

\* the thousandths that a run of fraction digits stands for
FractionMilli(ds) ==
    LET d(i) == IF i <= Len(ds) THEN DigitValue(ds[i]) ELSE 0
    IN  100 * d(1) + 10 * d(2) + d(3)

\* parseFloat(v): as parseInt, with an optional fraction after the digits
parseFloat(v) ==
    LET t == trimStart(jsString(v))
        body == Unsigned(t)
        n == DigitRun(body, 1)
        point == n < Len(body) /\ body[n + 1] = "."
        m == IF point THEN DigitRun(body, n + 2) ELSE 0
    IN  IF n = 0 /\ m = 0 THEN JSNaN
        ELSE JSNumber(SignOf(t) * (1000 * DigitsValue(SubSeq(body, 1, n))
                                   + FractionMilli(SubSeq(body, n + 2, n + 1 + m))))

\* str.replace(/[...]/g, '')
without(str, chars) == SelectSeq(str, LAMBDA c : c \notin chars)

isNaN(v) == v.t = "NaN"

ParsedPart(stock, price) == [t |-> "part", stock |-> stock, price |-> price]

\* a TypeError inside the parser: the adapter's search returns no Part
ParserThrew == [t |-> "threw"]

\* DigiKeyClient.parseProduct: StandardPricing is the sequence of the
\* UnitPrice values of its entries, empty when the field is missing
parseProduct(product) ==
    LET pricing == product.StandardPricing
        unitPrice == IF Len(pricing) > 0 THEN pricing[1] ELSE JSNumber(0)
    IN  ParsedPart(jsOr(product.QuantityAvailable, JSNumber(0)), unitPrice)

\* JLCPCBClient.parseComponent
parseComponent(comp) ==
    LET stockValue == jsOr(jsOr(comp.stock, comp.stockQty), comp.quantity)
        parsedStock == parseInt(JSString(without(jsString(stockValue), {","})))
        priceValue == jsOr(jsOr(comp.price, comp.price1), comp.unit_price)
        parsedPrice == parseFloat(JSString(without(jsString(priceValue), {","})))
    IN  ParsedPart(IF jsTruthy(stockValue) /\ ~isNaN(parsedStock)
                   THEN parsedStock ELSE JSNumber(0),
                   IF jsTruthy(priceValue) /\ ~isNaN(parsedPrice)
                   THEN parsedPrice ELSE JSNumber(0))

\* the first run of digits of a string, /(\d+)/
FirstDigits(str) ==
    LET starts == {i \in 1..Len(str) : IsDigit(str[i])}
    IN  IF starts = {} THEN <<>>
        ELSE SubSeq(str, Leftmost(starts),
                    Leftmost(starts) + DigitRun(str, Leftmost(starts)) - 1)

\* MouserClient.parsePart: PriceBreaks is the sequence of the Price values
\* of its entries, empty when the field is missing
parsePart(part) ==
    LET availability == jsOr(part.Availability, JSString(<<>>))
        stock == IF jsTruthy(part.AvailabilityInStock)
                 THEN jsOr(parseInt(part.AvailabilityInStock), JSNumber(0))
                 ELSE IF FirstDigits(availability.s) # <<>>
                 THEN parseInt(JSString(FirstDigits(availability.s)))
                 ELSE JSNumber(0)
        priceStr == jsOr(part.PriceBreaks[1], JSString(<<"0">>))
        price == IF Len(part.PriceBreaks) > 0
                 THEN jsOr(parseFloat(JSString(without(priceStr.s, {"$", ","}))),
                           JSNumber(0))
                 ELSE JSNumber(0)
    IN  IF ~jsTruthy(part.AvailabilityInStock) /\ availability.t # "string"
        THEN ParserThrew
        ELSE IF Len(part.PriceBreaks) > 0 /\ priceStr.t # "string"
        THEN ParserThrew
        ELSE ParsedPart(stock, price)

\* the values an upstream field may hold: missing, null, numbers (zero,
\* a count, a price, a negative), and strings (with a thousands separator,
\* with a currency symbol, negative, fractional, not numeric, empty)
FieldValues ==
    {JSUndefined, JSNull, JSNumber(0), JSNumber(1200000), JSNumber(250),
     JSNumber(-5000),
     JSString(<<"1",",","2","0","0">>), JSString(<<"$","2",".","0","5">>),
     JSString(<<"-","3">>), JSString(<<"1","2",".","5">>),
     JSString(<<"N","/","A">>), JSString(<<>>)}

OtherFieldValues == {JSUndefined, JSNumber(7000)}

AvailabilityTexts ==
    {JSUndefined, JSString(<<"1","2","0","0"," ","I","n"," ","S","t","o","c","k">>),
     JSString(<<"N","o","n","e">>), JSNumber(3000)}

\* the cross-reference id of JLCPCBClient.parseComponent
lcscPartOf(comp) ==
    IF jsTruthy(comp.lcsc)
    THEN IF startsWith(jsString(comp.lcsc), <<"C">>)
         THEN JSString(jsString(comp.lcsc))
         ELSE JSString(<<"C">> \o jsString(comp.lcsc))
    ELSE IF jsTruthy(comp.lcscCode) THEN comp.lcscCode
    ELSE IF jsTruthy(comp.lcsc_id) THEN JSString(<<"C">> \o jsString(comp.lcsc_id))
    ELSE JSString(<<>>)

\* the ids an upstream field may carry: none, a bare number, the number as
\* text, the prefixed code
IdValues ==
    {JSUndefined, JSNumber(25804000), JSString(<<"2","5","8","0","4">>),
     JSString(<<"C","2","5","8","0","4">>)}

ApplyLcscPart ==
    /\ pure.fn = "lcscPart"
    /\ ~pure.done
    /\ pure' = [pure EXCEPT !.done = TRUE, !.out = lcscPartOf(pure.payload)]
    /\ UNCHANGED <<bomVars, searchVars, upload, page>>

ApplyParseProduct ==
    /\ pure.fn = "parseProduct"
    /\ ~pure.done
    /\ pure' = [pure EXCEPT !.done = TRUE, !.out = parseProduct(pure.payload)]
    /\ UNCHANGED <<bomVars, searchVars, upload, page>>

ApplyParseComponent ==
    /\ pure.fn = "parseComponent"
    /\ ~pure.done
    /\ pure' = [pure EXCEPT !.done = TRUE, !.out = parseComponent(pure.payload)]
    /\ UNCHANGED <<bomVars, searchVars, upload, page>>

ApplyParsePart ==
    /\ pure.fn = "parsePart"
    /\ ~pure.done
    /\ pure' = [pure EXCEPT !.done = TRUE, !.out = parsePart(pure.payload)]
    /\ UNCHANGED <<bomVars, searchVars, upload, page>>

ParserCall(fn, payload) ==
    [fn |-> fn, payload |-> payload, done |-> FALSE, out |-> ParserThrew]

InitParse ==
    /\ \/ \E q \in FieldValues, pricing \in {<<>>} \cup {<<p>> : p \in FieldValues} :
             pure = ParserCall("parseProduct",
                               [QuantityAvailable |-> q, StandardPricing |-> pricing])
       \/ \E st \in FieldValues, pr \in FieldValues, other \in OtherFieldValues :
             pure = ParserCall("parseComponent",
                               [stock |-> st, stockQty |-> other, quantity |-> JSUndefined,
                                price |-> pr, price1 |-> other, unit_price |-> JSUndefined])
       \/ \E st \in FieldValues, av \in AvailabilityTexts,
             breaks \in {<<>>} \cup {<<p>> : p \in FieldValues} :
             pure = ParserCall("parsePart",
                               [AvailabilityInStock |-> st, Availability |-> av,
                                PriceBreaks |-> breaks])
       \/ \E id \in IdValues, code \in IdValues, other \in IdValues :
             pure = ParserCall("lcscPart",
                               [lcsc |-> id, lcscCode |-> code, lcsc_id |-> other])
    /\ upload = NoUpload
    /\ page = NoPage
    /\ IdleBOM
    /\ IdleSearch

NextParse == ApplyParseProduct \/ ApplyParseComponent \/ ApplyParsePart \/ ApplyLcscPart

SpecParse == InitParse /\ [][NextParse]_vars

NonNegativeNumber(v) == v.t = "number" /\ v.milli >= 0

\* C16: the stock and the price of every Part an adapter's parser returns,
\* whatever the upstream payload, are numbers greater than or equal to 0:
\* never null, undefined, NaN, a string or negative.
C16_StockPriceNonNegativeNumbers ==
    (pure.fn \in {"parseProduct", "parseComponent", "parsePart"}
        /\ pure.done /\ pure.out.t = "part")
    => (NonNegativeNumber(pure.out.stock) /\ NonNegativeNumber(pure.out.price))

(***************************************************************************)
(* The CSV functions of the upload: parseCSV on the uploaded text, toCSV   *)
(* on the rows (those of rows that received no merge are the parsed rows), *)
(* and parseCSV again on the text sent back.  A text is a sequence of      *)
(* characters; a parsed row holds its column names in the order of         *)
(* insertion (Object.keys) and its cells by column name.                   *)
(***************************************************************************)
Quote == "\""

\* parseCSVLine from place i on, with the field read so far, whether the
\* place is inside quotes, and the fields pushed so far
RECURSIVE parseCSVLineFrom(_, _, _, _, _)
parseCSVLineFrom(line, i, current, inQuotes, fields) ==
    IF i > Len(line) THEN Append(fields, current)
    ELSE IF line[i] = Quote
    THEN IF inQuotes /\ i + 1 <= Len(line) /\ line[i + 1] = Quote
         THEN parseCSVLineFrom(line, i + 2, Append(current, Quote), inQuotes, fields)
         ELSE parseCSVLineFrom(line, i + 1, current, ~inQuotes, fields)
    ELSE IF line[i] = "," /\ ~inQuotes
    THEN parseCSVLineFrom(line, i + 1, <<>>, inQuotes, Append(fields, current))
    ELSE parseCSVLineFrom(line, i + 1, Append(current, line[i]), inQuotes, fields)

parseCSVLine(line) == parseCSVLineFrom(line, 1, <<>>, FALSE, <<>>)

\* text.split('\n')
RECURSIVE splitLines(_)
splitLines(text) ==
    LET breaks == {i \in 1..Len(text) : text[i] = "\n"}
    IN  IF breaks = {} THEN <<text>>
        ELSE <<SubSeq(text, 1, Leftmost(breaks) - 1)>>
             \o splitLines(SubSeq(text, Leftmost(breaks) + 1, Len(text)))

\* the distinct elements of a sequence in the order of their first places
RECURSIVE distinct(_)
distinct(names) ==
    IF names = <<>> THEN <<>>
    ELSE LET front == distinct(SubSeq(names, 1, Len(names) - 1))
             last == names[Len(names)]
         IN  IF \E k \in DOMAIN front : front[k] = last THEN front
             ELSE Append(front, last)

\* headers.forEach((header, index) => row[header.trim()] = values[index]?.trim() || '')
parsedRow(headers, values) ==
    LET names == [k \in DOMAIN headers |-> trim(headers[k])]
        lastOf(name) == CHOOSE k \in DOMAIN names :
                            /\ names[k] = name
                            /\ \A j \in DOMAIN names : names[j] = name => j <= k
    IN  [keys |-> distinct(names),
         cells |-> [name \in {names[k] : k \in DOMAIN names} |->
                       IF lastOf(name) <= Len(values)
                       THEN trim(values[lastOf(name)]) ELSE <<>>]]

parseCSV(csvText) ==
    LET lines == SelectSeq(splitLines(csvText), LAMBDA line : trim(line) # <<>>)
    IN  IF Len(lines) < 2 THEN <<>>
        ELSE [i \in 1..(Len(lines) - 1) |->
                 parsedRow(parseCSVLine(lines[1]), parseCSVLine(lines[i + 1]))]

RECURSIVE join(_, _)
join(strs, sep) ==
    IF strs = <<>> THEN <<>>
    ELSE IF Len(strs) = 1 THEN strs[1]
    ELSE strs[1] \o sep \o join(Tail(strs), sep)

\* value.replace(/"/g, '""')
RECURSIVE escapeQuotes(_)
escapeQuotes(value) ==
    IF value = <<>> THEN <<>>
    ELSE (IF Head(value) = Quote THEN <<Quote, Quote>> ELSE <<Head(value)>>)
         \o escapeQuotes(Tail(value))

\* `"${h}"`
quoted(str) == <<Quote>> \o str \o <<Quote>>

\* the header names of all rows, each at its first place
RECURSIVE allHeaders(_)
allHeaders(rows) ==
    IF rows = <<>> THEN <<>>
    ELSE distinct(allHeaders(SubSeq(rows, 1, Len(rows) - 1)) \o rows[Len(rows)].keys)

toCSV(rows) ==
    IF rows = <<>> THEN <<>>
    ELSE LET headers == allHeaders(rows)
             headerLine == join([k \in DOMAIN headers |-> quoted(headers[k])], <<",">>)
             valueOf(r, h) == IF h \in DOMAIN r.cells THEN r.cells[h] ELSE <<>>
             dataLine(r) ==
                 join([k \in DOMAIN headers |->
                          quoted(escapeQuotes(valueOf(r, headers[k])))], <<",">>)
         IN  join(<<headerLine>> \o [i \in DOMAIN rows |-> dataLine(rows[i])], <<"\n">>)

MaxCsvRows == 1

\* header fields as written in the file: plain, unknown to the code, with
\* a comma, with a double quote
HeaderFields ==
    {<<"R","e","f">>, <<"N","o","t","e","s">>,
     <<Quote, "a", ",", "b", Quote>>,
     <<Quote, "S","i","z","e"," ", Quote, Quote, Quote>>}

\* cell fields as written in the file: plain, empty, with a comma, with
\* double quotes, with both
CellFields ==
    {<<"R","1">>, <<>>,
     <<Quote, "C","1",",","C","2", Quote>>,
     <<Quote, "5", Quote, Quote, Quote>>,
     <<Quote, Quote, Quote, "x", Quote, Quote, ",", "y", Quote>>}

RECURSIVE CsvDataLines(_)
CsvDataLines(n) ==
    IF n = 0 THEN {<<>>}
    ELSE {Append(ls, join(<<a, b>>, <<",">>)) :
             ls \in CsvDataLines(n - 1), a \in CellFields, b \in CellFields}

CsvTexts ==
    {join(<<join(<<h1, h2>>, <<",">>)>> \o ls, <<"\n">>) :
        h1 \in HeaderFields, h2 \in HeaderFields,
        ls \in UNION {CsvDataLines(n) : n \in 1..MaxCsvRows}}

\* the upload of a file none of whose rows receives a merge
ApplyRoundTrip ==
    /\ pure.fn = "roundTrip"
    /\ ~pure.done
    /\ pure' = [pure EXCEPT
                   !.done = TRUE,
                   !.rows = parseCSV(pure.csvText),
                   !.outputCSV = toCSV(parseCSV(pure.csvText)),
                   !.reparsed = parseCSV(toCSV(parseCSV(pure.csvText)))]
    /\ UNCHANGED <<bomVars, searchVars, upload, page>>

InitCSV ==
    /\ pure \in {[fn |-> "roundTrip", csvText |-> text, done |-> FALSE,
                  rows |-> <<>>, outputCSV |-> <<>>, reparsed |-> <<>>] :
                 text \in CsvTexts}
    /\ upload = NoUpload
    /\ page = NoPage
    /\ IdleBOM
    /\ IdleSearch

NextCSV == ApplyRoundTrip

SpecCSV == InitCSV /\ [][NextCSV]_vars

ScoreFor(supplier, part) ==
    IF supplier = "JLCPCB" THEN scoreJLCPCBPart(part) ELSE scoreDistributorPart(part)

\* the first place of the list whose candidate scores the list's maximum
FirstBest(supplier, list) ==
    CHOOSE i \in DOMAIN list :
        /\ \A j \in DOMAIN list : ScoreFor(supplier, list[j]) <= ScoreFor(supplier, list[i])
        /\ \A j \in 1..(i - 1) : ScoreFor(supplier, list[j]) < ScoreFor(supplier, list[i])

\* the id the note prints for a part of the supplier
NotedId(part) == IF part.supplier = "JLCPCB" THEN part.lcscPart ELSE part.partNumber

\* C27: the selected Part scores > 0, scores the maximum of the list of the
\* supplier it came from, and is the first candidate of that list with that
\* score; the note names that supplier, the Part's id and its stock.
C27_FirstMaximumOfItsList ==
    (pc = "done" /\ result.status = "matched") =>
        LET part == result.matchedPart
            list == adapterResult[part.supplier]
        IN  /\ part.supplier \in Suppliers
            /\ list # <<>>
            /\ ScoreFor(part.supplier, part) > 0
            /\ part = list[FirstBest(part.supplier, list)]
            /\ result.notes = Note("Matched via " \o part.supplier, NotedId(part), part.stock)

C27_Witness ==
    /\ pc = "done"
    /\ result.status = "matched"
    /\ result.matchedPart.supplier = "Mouser"
    /\ Len(adapterResult["Mouser"]) = 2
    /\ adapterResult["Mouser"][1] # adapterResult["Mouser"][2]
    /\ scoreDistributorPart(adapterResult["Mouser"][1])
          = scoreDistributorPart(adapterResult["Mouser"][2])
    /\ result.matchedPart = adapterResult["Mouser"][1]

(***************************************************************************)
(* Properties of a failed token request (SpecToken).                       *)
(***************************************************************************)
\* the step in which the token request of call r is answered by a failure
TokenRequestFails(r) ==
    /\ digikey[r].pc = "awaitToken"
    /\ digikey'[r].failed

\* C25: when the token request of a Digi-Key search call fails, the call
\* returns the empty list without a search request, and the cached token
\* and its expiry are what they were; a call whose token request failed
\* never sends a search request.
C25_TokenFailureLeavesCache ==
    /\ [](\A r \in Slots :
             (digikey[r].failed /\ digikey[r].tokenFrom = "none") =>
                 /\ digikey[r].pc = "returned"
                 /\ digikey[r].ret = <<>>
                 /\ digikey[r].tokenReqs = 1
                 /\ digikey[r].searchReqs = 0)
    /\ [][\A r \in Slots :
             TokenRequestFails(r) =>
                 /\ digikey'[r].pc = "returned"
                 /\ digikey'[r].ret = <<>>
                 /\ digikey'[r].searchReqs = 0
                 /\ tokenCache' = tokenCache
                 /\ issued' = issued]_vars

\* a token request failed while the cache held the expired token of an
\* earlier call, and the cache still holds it
C25_Witness ==
    \E r \in Slots :
        /\ digikey[r].failed
        /\ digikey[r].pc = "returned"
        /\ digikey[r].tokenReqs = 1
        /\ digikey[r].searchReqs = 0
        /\ tokenCache.accessToken # 0
        /\ digikey[r].checkedAt >= tokenCache.tokenExpiry
        /\ \E i \in ResponsesOf(tokenCache.accessToken) : issued[i].by # r

(***************************************************************************)
(* Properties of the list the JLCPCB adapter returns (SpecSearch).         *)
(***************************************************************************)
\* the parsed components of a response that have a part number or a code
Identified(parsed) ==
    {i \in DOMAIN parsed : parsed[i].partNumber # "" \/ parsed[i].lcscPart # ""}

\* a comes no later than b by descending stock, then ascending price
StockThenPrice(a, b) ==
    \/ a.stock > b.stock
    \/ a.stock = b.stock /\ a.price <= b.price

RequestedLimit(params) == IF params.limit = 0 THEN 10 ELSE params.limit

\* list is the first n Parts of the identified components of the response
\* in the order of StockThenPrice
FirstOfSorted(list, parsed, n) ==
    \E places \in [DOMAIN list -> Identified(parsed)] :
        /\ \A i, j \in DOMAIN list : i # j => places[i] # places[j]
        /\ \A i \in DOMAIN list : list[i] = parsed[places[i]]
        /\ \A i \in 1..(Len(list) - 1) : StockThenPrice(list[i], list[i + 1])
        /\ Len(list) = Min(n, Cardinality(Identified(parsed)))
        /\ \A k \in Identified(parsed) \ {places[i] : i \in DOMAIN list} :
              \A i \in DOMAIN list : StockThenPrice(list[i], parsed[k])

\* C22: the list a JLCPCB search call returns is in the order of descending
\* stock and, for equal stock, ascending price, holds at most the requested
\* limit of Parts (10 without a limit), and is the first 'limit' Parts of
\* the sorted components of an upstream response: the list is cut after it
\* is sorted.
C22_SortedThenTruncated ==
    \A r \in Slots :
        jlcpcb[r].pc = "returned" =>
            /\ Len(jlcpcb[r].ret) <= RequestedLimit(request[r].params)
            /\ \A i \in 1..(Len(jlcpcb[r].ret) - 1) :
                  StockThenPrice(jlcpcb[r].ret[i], jlcpcb[r].ret[i + 1])
            /\ \E parsed \in JLCPCBPayloads :
                  FirstOfSorted(jlcpcb[r].ret, parsed, RequestedLimit(request[r].params))

\* the response lists the best component third and two components without
\* stock in descending price; with a limit of 1 the best one is returned
C22_Witness ==
    \E r \in Slots :
        /\ jlcpcb[r].pc = "returned"
        /\ request[r].params.limit = 1
        /\ Len(jlcpcb[r].ret) = 1
        /\ jlcpcb[r].ret[1].stock = 15900000

(***************************************************************************)
(* Properties of the cross-reference id of the JLCPCB adapter (SpecParse). *)
(***************************************************************************)
\* the field of the component the id is taken from: lcsc, else lcscCode,
\* else lcsc_id
CarriedId(comp) ==
    IF jsTruthy(comp.lcsc) THEN comp.lcsc
    ELSE IF jsTruthy(comp.lcscCode) THEN comp.lcscCode
    ELSE comp.lcsc_id

\* the id without its prefix
BareId(v) ==
    LET str == jsString(v)
    IN  IF Len(str) > 0 /\ str[1] = "C" THEN Tail(str) ELSE str

\* C24: a non-empty cross-reference id of a parsed JLCPCB component is the
\* text 'C' followed by the bare id, whichever field carried the id and
\* whether or not it came with the prefix.
C24_PrefixedOnce ==
    (pure.fn = "lcscPart" /\ pure.done /\ jsTruthy(CarriedId(pure.payload))) =>
        /\ pure.out.t = "string"
        /\ pure.out.s = <<"C">> \o BareId(CarriedId(pure.payload))

(***************************************************************************)
(* inferComponentType applied to the reference and the value of a row.     *)
(***************************************************************************)
\* reference designators: one for each entry of the table, in lower case,
\* with no entry (Q1, TP1), and empty
InferReferences ==
    {<<"C","1">>, <<"R","1">>, <<"L","1">>, <<"L","E","D","1">>, <<"D","1">>,
     <<"U","1">>, <<"Y","1">>, <<"X","1">>, <<"S","W","1">>, <<"J","1">>,
     <<"M","I","C","1">>, <<"l","e","d","2">>, <<"c","3">>, <<"Q","1">>,
     <<"T","P","1">>, <<>>}

\* values: of a resistor, a capacitor, an inductor, a part number, none
InferValues ==
    {Str_100K, <<"1","0","u","F">>, <<"1","0","n","H">>, <<"L","M","3","5","8">>, <<>>}

ApplyInferComponentType ==
    /\ pure.fn = "inferComponentType"
    /\ ~pure.done
    /\ pure' = [pure EXCEPT !.done = TRUE,
                            !.out = inferComponentType(pure.value, pure.reference)]
    /\ UNCHANGED <<bomVars, searchVars, upload, page>>

InitInfer ==
    /\ pure \in {[fn |-> "inferComponentType", value |-> v, reference |-> r,
                  done |-> FALSE, out |-> ""] :
                 v \in InferValues, r \in InferReferences}
    /\ upload = NoUpload
    /\ page = NoPage
    /\ IdleBOM
    /\ IdleSearch

NextInfer == ApplyInferComponentType

SpecInfer == InitInfer /\ [][NextInfer]_vars

\* the reference starts with the prefix, in any case
RefStarts(prefix) == startsWith(toUpperCase(pure.reference), prefix)

\* C23: the category of a row is given by the prefix of its reference:
\* C capacitor, R resistor, 'LED' led, any other L inductor, D diode, U ic,
\* Y or X crystal, S switch, J connector, 'MIC' microphone, whatever the
\* value of the row is.
C23_PrefixTable ==
    (pure.fn = "inferComponentType" /\ pure.done) =>
        /\ RefStarts(<<"C">>) => pure.out = "capacitor"
        /\ RefStarts(<<"R">>) => pure.out = "resistor"
        /\ RefStarts(<<"L","E","D">>) => pure.out = "led"
        /\ (RefStarts(<<"L">>) /\ ~RefStarts(<<"L","E","D">>)) => pure.out = "inductor"
        /\ RefStarts(<<"D">>) => pure.out = "diode"
        /\ RefStarts(<<"U">>) => pure.out = "ic"
        /\ (RefStarts(<<"Y">>) \/ RefStarts(<<"X">>)) => pure.out = "crystal"
        /\ RefStarts(<<"S">>) => pure.out = "switch"
        /\ RefStarts(<<"J">>) => pure.out = "connector"
        /\ RefStarts(<<"M","I","C">>) => pure.out = "microphone"

(***************************************************************************)
(* POST of api/bom-upload from the request to the response: the file is    *)
(* read and parsed, the rows are processed one after another, and the      *)
(* report or a failure is answered.                                        *)
(***************************************************************************)
\* the column names of the uploads of the model, as keys of a row object
ColumnNames ==
    <<"Reference",
      "Value",
      "DNP",
      "LCSC Part #",
      "Notes",
      "JLCPCB Part #",
      "Manufacturer_Part_Number",
      "Manufacturer_Name",
      "Datasheet",
      "Description",
      "CASE CODE (METRIC)">>

\* the same names as they are written in a file
ColumnChars ==
    <<<<"R","e","f","e","r","e","n","c","e">>,
      <<"V","a","l","u","e">>,
      <<"D","N","P">>,
      <<"L","C","S","C"," ","P","a","r","t"," ","#">>,
      <<"N","o","t","e","s">>,
      <<"J","L","C","P","C","B"," ","P","a","r","t"," ","#">>,
      <<"M","a","n","u","f","a","c","t","u","r","e","r","_","P","a","r","t","_","N","u","m","b","e","r">>,
      <<"M","a","n","u","f","a","c","t","u","r","e","r","_","N","a","m","e">>,
      <<"D","a","t","a","s","h","e","e","t">>,
      <<"D","e","s","c","r","i","p","t","i","o","n">>,
      <<"C","A","S","E"," ","C","O","D","E"," ","(","M","E","T","R","I","C",")">>>>

Column(chars) == ColumnNames[CHOOSE i \in DOMAIN ColumnChars : ColumnChars[i] = chars]

ColumnCharsOf(name) == ColumnChars[CHOOSE i \in DOMAIN ColumnNames : ColumnNames[i] = name]

\* the row object of a parsed line, its cells under their column names
bomRow(parsed) ==
    [c \in {Column(k) : k \in DOMAIN parsed.cells} |->
        parsed.cells[CHOOSE k \in DOMAIN parsed.cells : Column(k) = c]]

\* the columns mergeSourcedData may add to a row, in the order it assigns them
MergeColumns ==
    <<"LCSC Part #", "JLCPCB Part #", "Manufacturer_Part_Number",
      "Manufacturer_Name", "Datasheet", "Description", "CASE CODE (METRIC)">>

\* the row object pushed to sourcedRows: the keys of the parsed row in their
\* order, then the keys added by the merge
keyedRow(parsed, r) ==
    LET added == SelectSeq(MergeColumns,
                           LAMBDA c : c \in DOMAIN r /\ ~(ColumnCharsOf(c) \in DOMAIN parsed.cells))
        keys == parsed.keys \o [i \in DOMAIN added |-> ColumnCharsOf(added[i])]
    IN  [keys |-> keys,
         cells |-> [k \in {keys[i] : i \in DOMAIN keys} |-> r[Column(k)]]]

\* processBOMRow returns before it builds the search parameters
returnsBeforeSearchParams(r) == isExcludedFromBOM(r) \/ isDNP(r) \/ isAlreadySourced(r)

TypeErrorMessage == "Cannot read properties of undefined (reading 'toUpperCase')"

RowThrew == [status |-> "threw", error |-> TypeErrorMessage]

\* processBOMRow(row) with the lists its adapters return: the result, or
\* RowThrew when inferComponentType receives the Reference of a row that has
\* no such column (reference.toUpperCase() of undefined)
processBOMRow(r, lists) ==
    IF returnsBeforeSearchParams(r) THEN resultWithoutSearch(r)
    ELSE IF ~Has(r, "Reference") THEN RowThrew
    ELSE IF resultWithoutSearch(r) # NoResult THEN resultWithoutSearch(r)
    ELSE resultOfSearch(r, lists)

\* results.push(result) and sourcedRows.push(row), with the new entry put
\* in front
pushedInFront(list, entry) == <<entry>> \o list

\* results.push(result) and sourcedRows.push(row)
pushed(list, entry) == Append(list, entry)

\* bomRows.length === 0 never answered
noRowsParsedIgnored(bomRows) == FALSE

\* if (bomRows.length === 0): the file is answered 400
noRowsParsed(bomRows) == Len(bomRows) = 0

NoResponse == [status |-> 0]

\* NextResponse.json({ success: false, error }, { status })
failure(status, message) == [status |-> status, success |-> FALSE, error |-> message]

\* the entry of the report for one result
reported(res) ==
    [reference |-> IF Has(res.originalRow, "Reference")
                   THEN res.originalRow["Reference"] ELSE Absent,
     value |-> IF Has(res.originalRow, "Value")
               THEN res.originalRow["Value"] ELSE Absent,
     status |-> res.status, notes |-> res.notes, matchedPart |-> res.matchedPart]

\* NextResponse.json({ success: true, stats, results, csv })
report(results, sourcedRows) ==
    [status |-> 200, success |-> TRUE, stats |-> statsOf(results),
     results |-> [i \in DOMAIN results |-> reported(results[i])],
     csv |-> toCSV(sourcedRows)]

(***************************************************************************)
(* The requests of the model: without a file, with a body that is not form *)
(* data, and with a file of a header line and up to MaxRows lines.         *)
(***************************************************************************)
\* header lines: with Reference and Value, without Reference, without
\* Value, with neither
PostHeaders ==
    {join(<<<<"R","e","f","e","r","e","n","c","e">>, <<"V","a","l","u","e">>, <<"D","N","P">>, <<"L","C","S","C"," ","P","a","r","t"," ","#">>>>, <<",">>),
     join(<<<<"V","a","l","u","e">>, <<"D","N","P">>>>, <<",">>),
     join(<<<<"R","e","f","e","r","e","n","c","e">>, <<"D","N","P">>>>, <<",">>),
     <<"N","o","t","e","s">>}

\* lines: two cells, one cell, four cells, blank
PostLines ==
    {<<"R","1",",","1","0","0","K">>,
     <<"R","1">>,
     <<"1","0","0","K",",","Y","e","s",",",",","C","2","5","8","0","4">>,
     <<" "," ">>}

RECURSIVE PostLinesUpTo(_)
PostLinesUpTo(n) ==
    IF n = 0 THEN {<<>>}
    ELSE PostLinesUpTo(n - 1) \cup
         {Append(ls, l) : ls \in {x \in PostLinesUpTo(n - 1) : Len(x) = n - 1},
                          l \in PostLines}

PostTexts ==
    {<<>>} \cup {join(<<h>> \o ls, <<"\n">>) : h \in PostHeaders, ls \in PostLinesUpTo(MaxRows)}

NoFile == [kind |-> "noFile"]

NotFormData == [kind |-> "notFormData"]

FileOf(text) == [kind |-> "file", text |-> text]

PostRequests == {NoFile, NotFormData} \cup {FileOf(text) : text \in PostTexts}

Answered(u, response) == [u EXCEPT !.phase = "responded", !.response = response]

\* POST up to the loop: request.formData(), the file of the form, its text
\* parsed
PostReceive ==
    /\ upload.phase = "received"
    /\ LET bomRows == parseCSV(upload.request.text)
       IN  upload' =
             IF upload.request = NotFormData
             THEN Answered(upload, failure(500, "Failed to parse body as FormData"))
             ELSE IF upload.request = NoFile
             THEN Answered(upload, failure(400, "No file uploaded"))
             ELSE IF noRowsParsed(bomRows)
             THEN Answered(upload,
                           failure(400, "Could not parse BOM file or file is empty"))
             ELSE [upload EXCEPT !.phase = "processing", !.rows = bomRows]
    /\ UNCHANGED <<bomVars, searchVars, pure, page>>

\* one iteration of the loop: processBOMRow(row) with the lists the adapters
\* return, the result and the row pushed; an exception of it is caught by
\* POST and answered 500
PostProcessRow ==
    /\ upload.phase = "processing"
    /\ Len(upload.results) < Len(upload.rows)
    /\ \E jl \in UploadLists("JLCPCB"), dl \in UploadLists("Digi-Key"),
          ml \in UploadLists("Mouser") :
          LET parsed == upload.rows[Len(upload.results) + 1]
              r == bomRow(parsed)
              lists == [s \in Suppliers |->
                           IF s = "JLCPCB" THEN jl
                           ELSE IF s = "Digi-Key" THEN dl ELSE ml]
              res == processBOMRow(r, lists)
          IN  upload' =
                IF res = RowThrew
                THEN Answered(upload, failure(500, RowThrew.error))
                ELSE [upload EXCEPT
                         !.results = pushed(@, res),
                         !.sourcedRows = pushed(@, keyedRow(parsed, sourcedRow(r, res)))]
    /\ UNCHANGED <<bomVars, searchVars, pure, page>>

\* after the loop: the output CSV and the statistics are answered
PostRespond ==
    /\ upload.phase = "processing"
    /\ Len(upload.results) = Len(upload.rows)
    /\ upload' = Answered(upload, report(upload.results, upload.sourcedRows))
    /\ UNCHANGED <<bomVars, searchVars, pure, page>>

InitPost ==
    /\ upload \in {[phase |-> "received", request |-> req, rows |-> <<>>,
                    results |-> <<>>, sourcedRows |-> <<>>, response |-> NoResponse] :
                   req \in PostRequests}
    /\ pure = NoCall
    /\ page = NoPage
    /\ IdleBOM
    /\ IdleSearch

NextPost == PostReceive \/ PostProcessRow \/ PostRespond

SpecPost == InitPost /\ [][NextPost]_vars

\* the upload carries a file whose text parses to at least one row
RowsReceived == upload.phase \in {"processing", "responded"} /\ upload.rows # <<>>

\* C26: every row parseCSV can produce, from a header without Reference or
\* without Value and from a line shorter than the header too, is given one
\* of the four outcomes by processBOMRow, and no exception is raised.
C26_RowInterpretationTotal ==
    RowsReceived =>
        /\ upload.response.status # 500
        /\ \A i \in DOMAIN upload.results : upload.results[i].status \in Outcomes

\* the text has fewer than two lines that are not blank: no header line, or
\* no data line
Unparseable(text) ==
    Cardinality({i \in DOMAIN splitLines(text) : trim(splitLines(text)[i]) # <<>>}) < 2

\* the request carries no file, or a file that is empty or cannot be parsed
NothingToProcess ==
    \/ upload.request = NoFile
    \/ upload.request.kind = "file" /\ Unparseable(upload.request.text)

\* the loop ended before its last row: processBOMRow raised an exception
RowProcessingThrew ==
    /\ upload.phase = "responded"
    /\ upload.rows # <<>>
    /\ Len(upload.results) < Len(upload.rows)

ReportFields == {"results", "csv", "stats"}

KeptColumns == {"Reference", "Value", "DNP", "Notes"}

\* the report is answered
Reported == upload.phase = "responded" /\ upload.response.status = 200

\* the lines of the output CSV
OutputLines == splitLines(upload.response.csv)

\* the places of the commas of a line
Commas(line) == {k \in DOMAIN line : line[k] = ","}

\* the j-th comma of a line
CommaAt(line, j) ==
    CHOOSE p \in Commas(line) : Cardinality({q \in Commas(line) : q < p}) = j - 1

\* the j-th field of an output line without its quotes (no cell of the
\* uploads of the model holds a comma or a quote)
FieldAt(line, j) ==
    LET first == IF j = 1 THEN 1 ELSE CommaAt(line, j - 1) + 1
        last == IF j = Cardinality(Commas(line)) + 1 THEN Len(line)
                ELSE CommaAt(line, j) - 1
    IN  SubSeq(line, first + 1, last - 1)

\* a line of the output, under the header line, repeats the cells of the
\* input row in the columns no merge writes
RepeatsRow(line, parsed) ==
    /\ Cardinality(Commas(line)) = Cardinality(Commas(OutputLines[1]))
    /\ \A k \in 1..(Cardinality(Commas(line)) + 1) :
          LET header == FieldAt(OutputLines[1], k)
          IN  (header \in DOMAIN parsed.cells /\ Column(header) \in KeptColumns)
                  => FieldAt(line, k) = parsed.cells[header]

\* C28: the results of the report and the data lines of the output CSV are
\* as many as the parsed rows of the input, and the i-th of each belongs to
\* the i-th row, whatever the outcomes of the rows are.
C28_OneEntryPerRowInOrder ==
    Reported =>
        /\ Len(upload.response.results) = Len(upload.rows)
        /\ Len(OutputLines) = Len(upload.rows) + 1
        /\ \A i \in DOMAIN upload.rows :
              /\ upload.results[i].originalRow = bomRow(upload.rows[i])
              /\ upload.response.results[i].status = upload.results[i].status
              /\ Has(bomRow(upload.rows[i]), "Reference") =>
                    upload.response.results[i].reference
                        = upload.rows[i].cells[ColumnCharsOf("Reference")]
              /\ RepeatsRow(OutputLines[i + 1], upload.rows[i])

\* two rows of different cells and different outcomes, the first matched
C28_Witness ==
    /\ Reported
    /\ Len(upload.rows) = 2
    /\ upload.rows[1].cells # upload.rows[2].cells
    /\ upload.response.results[1].status = "matched"
    /\ upload.response.results[2].status # "matched"

(***************************************************************************)
(* The part search of the page: the inputs, searchParts and the responses  *)
(* of /api/parts-search to its requests.                                   *)
(***************************************************************************)
MaxSubmits == 2

NoError == "null"

NoResults == [of |-> "none"]

\* the results the endpoint answers to a request: Parts that echo the value
\* and the footprint of the search, under the keys of its suppliers
AnswerTo(body) == [of |-> "search", value |-> body.value,
                   footprint |-> body.footprint, suppliers |-> body.suppliers]

\* the message displayed for an answer that is not a success, or for an
\* exception of fetch or of response.json()
MessageOf(outcome) ==
    IF outcome = "failed" THEN "Search failed" ELSE "Failed to fetch"

\* what the user may type in the inputs
PageValues == {<<>>, <<" ">>, Str_100K}

PageFootprints == {<<>>, <<"0","4","0","2">>}

\* searchParts() up to its await of fetch: a message and no request when
\* the value and the footprint are blank or no supplier is selected;
\* otherwise loading is set, what is displayed is cleared and the request is
\* sent
searchParts(p) ==
    IF trim(p.value) = <<>> /\ trim(p.footprint) = <<>>
    THEN [p EXCEPT !.error = "Please enter a value or footprint to search"]
    ELSE IF p.suppliers = {}
    THEN [p EXCEPT !.error = "Please select at least one supplier"]
    ELSE [p EXCEPT !.loading = TRUE, !.error = NoError, !.results = NoResults,
                   !.searched = TRUE,
                   !.requests = Append(@, [body |-> [value |-> trim(p.value),
                                                     footprint |-> trim(p.footprint),
                                                     suppliers |-> p.suppliers],
                                           outcome |-> "inflight"])]

\* searchParts() from the answer to request i on: the results or the
\* message are displayed, and finally loading is reset
searchPartsResumed(p, i, outcome) ==
    LET answered == [p EXCEPT !.requests[i].outcome = outcome, !.loading = FALSE]
    IN  IF outcome = "ok"
        THEN [answered EXCEPT !.results = AnswerTo(p.requests[i].body)]
        ELSE [answered EXCEPT !.error = MessageOf(outcome)]

\* onChange of the value input
SetValue(v) ==
    /\ page.value # v
    /\ page' = [page EXCEPT !.value = v]
    /\ UNCHANGED <<bomVars, searchVars, upload, pure>>

\* onChange of the footprint input
SetFootprint(f) ==
    /\ page.footprint # f
    /\ page' = [page EXCEPT !.footprint = f]
    /\ UNCHANGED <<bomVars, searchVars, upload, pure>>

\* onCheckedChange of the checkbox of a supplier
ToggleSupplier(id) ==
    /\ page' = [page EXCEPT !.suppliers =
                   IF id \in @ THEN @ \ {id} ELSE @ \cup {id}]
    /\ UNCHANGED <<bomVars, searchVars, upload, pure>>

\* Enter in the value or the footprint input: handleKeyPress calls
\* searchParts, whether a search is loading or not
PressEnter ==
    /\ Len(page.requests) < MaxSubmits
    /\ page' = searchParts(page)
    /\ UNCHANGED <<bomVars, searchVars, upload, pure>>

\* click of the Search button, which is disabled while loading
ClickSearch ==
    /\ ~page.loading
    /\ Len(page.requests) < MaxSubmits
    /\ page' = searchParts(page)
    /\ UNCHANGED <<bomVars, searchVars, upload, pure>>

\* the answer to request i arrives: a success, success = false, or an
\* exception of fetch or of response.json()
SearchAnswered(i) ==
    /\ i \in DOMAIN page.requests
    /\ page.requests[i].outcome = "inflight"
    /\ \E outcome \in {"ok", "failed", "threw"} :
          page' = searchPartsResumed(page, i, outcome)
    /\ UNCHANGED <<bomVars, searchVars, upload, pure>>

InitPage ==
    /\ page = [value |-> <<>>, footprint |-> <<>>, suppliers |-> AllIds,
               results |-> NoResults, error |-> NoError, loading |-> FALSE,
               searched |-> FALSE, requests |-> <<>>]
    /\ upload = NoUpload
    /\ pure = NoCall
    /\ IdleBOM
    /\ IdleSearch

NextPage ==
    \/ \E v \in PageValues : SetValue(v)
    \/ \E f \in PageFootprints : SetFootprint(f)
    \/ \E id \in AllIds : ToggleSupplier(id)
    \/ PressEnter
    \/ ClickSearch
    \/ \E i \in 1..MaxSubmits : SearchAnswered(i)

SpecPage == InitPage /\ [][NextPage]_vars

\* the requests that have no answer yet
InFlight == {i \in DOMAIN page.requests : page.requests[i].outcome = "inflight"}

\* the search submitted last
LastSearch == page.requests[Len(page.requests)]

ValidationMessages ==
    {"Please enter a value or footprint to search", "Please select at least one supplier"}

\* C29: searches may overlap (Enter submits while a search is loading); when
\* every request has been answered, the results and the error displayed
\* are those of the search submitted last.
C29_LastSubmittedDisplayed ==
    (page.requests # <<>> /\ InFlight = {}) =>
        IF LastSearch.outcome = "ok"
        THEN /\ page.results = AnswerTo(LastSearch.body)
             /\ page.error \in {NoError} \cup ValidationMessages
        ELSE /\ page.results = NoResults
             /\ page.error \in {MessageOf(LastSearch.outcome)} \cup ValidationMessages

\* C30: loading is true while at least one request is in flight and false
\* once every submitted request has finished, by a success, by success =
\* false or by an exception; no request is sent when the value and the
\* footprint are blank or no supplier is selected.
C30_LoadingWhileInFlight ==
    /\ page.loading <=> InFlight # {}
    /\ \A i \in DOMAIN page.requests :
          /\ page.requests[i].body.value # <<>> \/ page.requests[i].body.footprint # <<>>
          /\ page.requests[i].body.suppliers # {}

====
